---- MODULE Spec2Model ----
(***************************************************************************)
(* Atlas.js: the tile cache / loading state machine of TileLayer and the   *)
(* viewport, gesture and animation-job state machine of Atlas.             *)
(*                                                                         *)
(* Units.  The wall clock (Date.now) counts hours, so TILE_TTL is 24; it   *)
(* visits the instants of Clock.  Timers and image events are untimed:     *)
(* they may fire in any order, as network latency is arbitrary.            *)
(* Longitude, latitude and bearing are in whole degrees (MAX_LATITUDE is   *)
(* 85 on that grid), zoom in eighths of a level (Z), pointer speed in      *)
(* hundredths of a pixel per millisecond.  An animation frame draws its    *)
(* eased progress q / PDen from 0..PDen; interpolated values are rounded   *)
(* down to the grid.                                                       *)
(***************************************************************************)
EXTENDS Integers, Sequences, FiniteSets, TLC

(***************************************************************************)
(* Bounds of the model.                                                    *)
(***************************************************************************)
NKeys == 2
MaxLoads == 3
MaxReloads == 2
MaxEvictJobs == 2
MaxRetries == 2
PDen == 2
MaxSpeed == 3
ZoomSpan == 1
BearingSpan == 1
MaxPieces == 3
MaxSamples == 3
MaxRenders == 3
MaxFrames == 3
MaxMarkers == 4

(***************************************************************************)
(* Program constants and options.                                          *)
(***************************************************************************)
TILE_TTL == 24
maxCacheSize == 1
MAX_LATITUDE == 85
MIN_LATITUDE == -85
INERTIA_STOP_SPEED == 2
WHEEL_ZOOM_STEP == 2

\* the instants of the wall clock, in hours: 13 hours apart, so that the uses of
\* the tiles can be told apart while no tile outlives TILE_TTL
Clock == <<1, 14>>

Keys == 1..NKeys
LoadIds == 1..MaxLoads
ReloadIds == 1..MaxReloads

VARIABLES
  tiles,              \* the tile objects / load closures made by _loadTile, by load id;
                      \* shown is tile.img: 0 the image of the load, r the one of refresh r
  tileCache,          \* TileLayer.tileCache: load ids in Map insertion order
  loadingTiles,       \* TileLayer.loadingTiles: <<"key", k>> and refresh tokens <<"ref", k>>
  loadingControllers, \* TileLayer.loadingControllers: key -> load id of the controller, 0 = absent
  nextId,             \* next fresh load id
  retinaAvailable,    \* TileLayer._retinaAvailable
  wantRetina,         \* options.supportsRetina and CONFIG.retina / devicePixelRatio ask for @2x
  now,                \* Date.now()
  evictJobs,          \* scheduled idle callbacks of _evict
  reloads,            \* the doReload closures made by _reloadTile, by reload id
  nextReload,         \* next fresh reload id
  layers,             \* Atlas._layers
  baseLayer,          \* Atlas._baseLayer
  renderScheduled,    \* Atlas.renderScheduled
  center,             \* Atlas.center: [lon, lat]
  zoom,               \* Atlas.zoom
  bearing,            \* Atlas.bearing
  inertiaRAF,         \* Atlas._inertiaRAF: the scheduled inertia step and its closure
  zoomAnim,           \* Atlas._zoomAnim: the scheduled anchored zoom/rotate step and its closure
  flyAnim,            \* Atlas._flyAnim: the scheduled fly-to step and its closure
  isDragging,         \* DragPanHandler._isDragging
  dragStart,          \* DragPanHandler._dragStart.center
  moveSamples,        \* DragPanHandler._moveSamples.length, 2 standing for two or more
  isPinching,         \* TouchZoomRotateHandler._isPinching
  pinch,              \* TouchZoomRotateHandler._pinchStart*, _pinchAnchorLL, _pinchMoved
  fired,              \* of the events move, moveend and zoomend, the ones that the last
                      \* handler or callback of the map fired, in order
  call                \* the last call the application made of a function that writes
                      \* none of the fields above: its name, arguments and outcome,
                      \* and what an object outside the fields above keeps between calls

\* what no handler or callback of the layer or the map writes
fixedVars == <<wantRetina, call>>

tileVars == <<tiles, tileCache, loadingTiles, loadingControllers, nextId,
              retinaAvailable, fixedVars, now, evictJobs, reloads, nextReload>>
layerVars == <<layers, baseLayer>>
viewVars == <<center, zoom, bearing>>
jobVars == <<inertiaRAF, zoomAnim, flyAnim>>
gestureVars == <<isDragging, dragStart, moveSamples, isPinching, pinch>>
mapVars == <<viewVars, jobVars, gestureVars, fired>>
vars == <<tileVars, layerVars, renderScheduled, mapVars>>

\* the fields of the layer and the map
stateVars == <<tiles, tileCache, loadingTiles, loadingControllers, nextId, retinaAvailable,
               wantRetina, now, evictJobs, reloads, nextReload, layerVars, renderScheduled,
               mapVars>>

NoTile == [key |-> 0, url |-> "none", loaded |-> FALSE, loadedAt |-> 0, lastUsed |-> 0,
           aborted |-> FALSE, timer |-> FALSE, img |-> "idle", retries |-> 0,
           promise |-> "none", err |-> "none", evicted |-> FALSE, shown |-> 0]
NoReload == [tile |-> 0, key |-> 0, st |-> "none"]

NoCall == [op |-> "none"]

KeyTok(k) == <<"key", k>>
RefTok(k) == <<"ref", k>>

Range(s) == {s[i] : i \in DOMAIN s}

\* tileCache.has(key) / tileCache.get(key) on a cache c of load ids over tile objects t
Has(t, c, k) == \E i \in DOMAIN c : t[c[i]].key = k
Get(t, c, k) == c[CHOOSE i \in DOMAIN c : t[c[i]].key = k]

\* tileCache.delete(key)
CacheDelete(t, c, k) == SelectSeq(c, LAMBDA id : t[id].key # k)

\* this._map of the tile layer whose cache is modelled
Attached == \E i \in DOMAIN layers : layers[i] = "L1"

(***************************************************************************)
(* TileLayer: helpers over an in-progress layer state                      *)
(*   S = [tiles, cache, loading, ctrl, next, reloads, nextR]               *)
(* so that one render pass can run its loop of calls in order.             *)
(***************************************************************************)
LayerState == [tiles |-> tiles, cache |-> tileCache, loading |-> loadingTiles,
               ctrl |-> loadingControllers, next |-> nextId,
               reloads |-> reloads, nextR |-> nextReload]

\* _getTileUrl: the retina suffix is appended when supported, wanted and still available
TileUrl == IF wantRetina /\ retinaAvailable THEN "retina" ELSE "plain"

\* _loadTile up to its await: the early return for a cached key, else the new
\* controller, tile record, timer and image request
LoadTile(S, k) ==
  IF Has(S.tiles, S.cache, k) THEN S
  ELSE IF S.next > MaxLoads THEN [S EXCEPT !.next = MaxLoads + 2]
  ELSE [S EXCEPT
          !.tiles[S.next] = [key |-> k, url |-> TileUrl, loaded |-> FALSE,
                             loadedAt |-> now, lastUsed |-> now, aborted |-> FALSE,
                             timer |-> TRUE, img |-> "loading", retries |-> 0,
                             promise |-> "pending", err |-> "none", evicted |-> FALSE,
                             shown |-> 0],
          !.ctrl[k] = S.next,
          !.cache = Append(S.cache, S.next),
          !.loading = S.loading \cup {KeyTok(k)},
          !.next = S.next + 1]

\* _reloadTile up to the scheduling of doReload
ReloadTile(S, k) ==
  IF ~Has(S.tiles, S.cache, k) THEN S
  ELSE IF RefTok(k) \in S.loading THEN S
  ELSE IF S.nextR > MaxReloads THEN [S EXCEPT !.nextR = MaxReloads + 2]
  ELSE [S EXCEPT
          !.reloads[S.nextR] = [tile |-> Get(S.tiles, S.cache, k), key |-> k, st |-> "scheduled"],
          !.nextR = S.nextR + 1]

\* the body of render's loop for one visible tile
VisitTile(S, k) ==
  IF ~Has(S.tiles, S.cache, k) THEN LoadTile(S, k)
  ELSE LET id == Get(S.tiles, S.cache, k)
           S1 == [S EXCEPT !.tiles[id].lastUsed = now]
       IN IF ~S.tiles[id].loaded THEN S
          ELSE IF S.tiles[id].loadedAt # 0 /\ now - S.tiles[id].loadedAt > TILE_TTL
               THEN ReloadTile(S1, k)
               ELSE S1

\* the body of _preloadAdjacentZoomTiles' loop for one adjacent-zoom tile
PreloadTile(S, k) ==
  IF ~Has(S.tiles, S.cache, k) /\ KeyTok(k) \notin S.loading THEN LoadTile(S, k) ELSE S

RECURSIVE VisitAll(_, _)
VisitAll(S, ks) == IF ks = <<>> THEN S ELSE VisitAll(VisitTile(S, Head(ks)), Tail(ks))

RECURSIVE PreloadAll(_, _)
PreloadAll(S, ks) == IF ks = <<>> THEN S ELSE PreloadAll(PreloadTile(S, Head(ks)), Tail(ks))

\* the tile lists a render pass can see: sequences of distinct keys
KeySeqs(K) == {s \in UNION {[1..n -> K] : n \in 0..Cardinality(K)} :
                 \A i, j \in DOMAIN s : i # j => s[i] # s[j]}

\* _evict: one idle callback is scheduled when the cache is over its limit
EvictRequest(c) == IF Len(c) > maxCacheSize THEN 1 ELSE 0

\* Atlas.scheduleRender
ScheduleRender == renderScheduled' = TRUE

\* TileLayer.render for visible tiles vs and adjacent-zoom tiles ps
TileRender(vs, ps) ==
  LET S1 == VisitAll(LayerState, vs)
      S2 == PreloadAll(S1, ps)
  IN /\ S2.next <= MaxLoads + 1
     /\ S2.nextR <= MaxReloads + 1
     /\ evictJobs + EvictRequest(S1.cache) <= MaxEvictJobs
     /\ tiles' = S2.tiles
     /\ tileCache' = S2.cache
     /\ loadingTiles' = S2.loading
     /\ loadingControllers' = S2.ctrl
     /\ nextId' = S2.next
     /\ reloads' = S2.reloads
     /\ nextReload' = S2.nextR
     /\ evictJobs' = evictJobs + EvictRequest(S1.cache)
     /\ UNCHANGED <<retinaAvailable, fixedVars, now>>

\* the base layer is a Layer that is no TileLayer: it has no getBackground, getMinZoom
\* or getMaxZoom, and a call of one of them throws a TypeError
BaseLayerLacksMethods == baseLayer \notin {"none", "L1", "L2", "OSM", "ESRI"}

\* the frame callback of scheduleRender: Atlas._draw, which renders every layer; its
\* first statement calls this._baseLayer.getBackground()
Draw(vs, ps) ==
  /\ renderScheduled
  /\ renderScheduled' = FALSE
  /\ IF BaseLayerLacksMethods
     THEN fired' = <<>> /\ UNCHANGED tileVars
     ELSE /\ IF Attached THEN TileRender(vs, ps) ELSE UNCHANGED tileVars
          /\ fired' = <<"moveend">>
  /\ UNCHANGED <<layerVars, viewVars, jobVars, gestureVars>>

\* Atlas.render, called by any gesture or API call
MapRender ==
  /\ ScheduleRender
  /\ UNCHANGED <<tileVars, layerVars, mapVars>>

\* the wall clock advances along the instants clk
ClockStep(clk) ==
  /\ \E i \in 1..(Len(clk) - 1) : now = clk[i] /\ now' = clk[i + 1]
  /\ UNCHANGED <<tiles, tileCache, loadingTiles, loadingControllers, nextId, retinaAvailable,
                 fixedVars, evictJobs, reloads, nextReload, layerVars, renderScheduled,
                 mapVars>>

Tick == ClockStep(Clock)

\* the settled state of the promise _loadTile awaits
Settle(p, outcome) == IF p = "pending" THEN outcome ELSE p

\* img.onload of the load id
ImgLoad(id) ==
  /\ tiles[id].img = "loading"
  /\ tiles' = [tiles EXCEPT ![id].timer = FALSE, ![id].img = "idle", ![id].loaded = TRUE,
                            ![id].loadedAt = now,
                            ![id].promise = Settle(tiles[id].promise, "fulfilled")]
  /\ loadingTiles' = loadingTiles \ {KeyTok(tiles[id].key)}
  /\ loadingControllers' = [loadingControllers EXCEPT ![tiles[id].key] = 0]
  /\ renderScheduled' = (renderScheduled \/ Attached)
  /\ UNCHANGED <<tileCache, nextId, retinaAvailable, fixedVars, now, evictJobs, reloads,
                 nextReload, layerVars, mapVars>>

\* img.onerror of the load id
ImgError(id) ==
  /\ tiles[id].img = "loading"
  /\ IF tiles[id].aborted
     THEN /\ tiles' = [tiles EXCEPT ![id].timer = FALSE, ![id].img = "idle"]
          /\ UNCHANGED <<loadingTiles, loadingControllers, retinaAvailable>>
     ELSE IF tiles[id].url = "retina"
     THEN /\ tiles[id].retries < MaxRetries
          /\ tiles' = [tiles EXCEPT ![id].timer = FALSE, ![id].retries = @ + 1]
          /\ retinaAvailable' = FALSE
          /\ UNCHANGED <<loadingTiles, loadingControllers>>
     ELSE /\ tiles' = [tiles EXCEPT ![id].timer = FALSE, ![id].img = "idle", ![id].err = "error",
                                    ![id].promise = Settle(tiles[id].promise, "rejected")]
          /\ loadingTiles' = loadingTiles \ {KeyTok(tiles[id].key)}
          /\ loadingControllers' = [loadingControllers EXCEPT ![tiles[id].key] = 0]
          /\ UNCHANGED retinaAvailable
  /\ UNCHANGED <<tileCache, nextId, fixedVars, now, evictJobs, reloads, nextReload,
                 layerVars, renderScheduled, mapVars>>

\* the setTimeout callback of the load id
Timeout(id) ==
  /\ tiles[id].timer
  /\ IF KeyTok(tiles[id].key) \in loadingTiles
     THEN /\ tiles' = [tiles EXCEPT ![id].timer = FALSE, ![id].aborted = TRUE,
                                    ![id].err = "timeout",
                                    ![id].promise = Settle(tiles[id].promise, "rejected")]
          /\ loadingTiles' = loadingTiles \ {KeyTok(tiles[id].key)}
          /\ loadingControllers' = [loadingControllers EXCEPT ![tiles[id].key] = 0]
          /\ tileCache' = CacheDelete(tiles, tileCache, tiles[id].key)
     ELSE /\ tiles' = [tiles EXCEPT ![id].timer = FALSE]
          /\ UNCHANGED <<loadingTiles, loadingControllers, tileCache>>
  /\ UNCHANGED <<nextId, retinaAvailable, fixedVars, now, evictJobs, reloads, nextReload,
                 layerVars, renderScheduled, mapVars>>

\* the comparator reversed: (a, b) => b[1].lastUsed - a[1].lastUsed
SortRankDescending(t, c, i) ==
  1 + Cardinality({j \in DOMAIN c :
        \/ t[c[j]].lastUsed > t[c[i]].lastUsed
        \/ (t[c[j]].lastUsed = t[c[i]].lastUsed /\ j < i)})

\* the position the entry at index i of cache c takes after
\* entries.sort((a, b) => a[1].lastUsed - b[1].lastUsed), a stable sort
SortRank(t, c, i) ==
  1 + Cardinality({j \in DOMAIN c :
        \/ t[c[j]].lastUsed < t[c[i]].lastUsed
        \/ (t[c[j]].lastUsed = t[c[i]].lastUsed /\ j < i)})

\* the load ids _performEviction deletes: the first removeCount entries of the sorted list
EvictSet(t, c) ==
  LET removeCount == Len(c) - maxCacheSize
  IN IF Len(c) <= maxCacheSize THEN {}
     ELSE {c[i] : i \in {j \in DOMAIN c : SortRank(t, c, j) <= removeCount}}

\* the idle callback of _evict: _performEviction
PerformEviction ==
  /\ evictJobs > 0
  /\ evictJobs' = evictJobs - 1
  /\ LET gone == EvictSet(tiles, tileCache)
     IN /\ tileCache' = SelectSeq(tileCache, LAMBDA id : id \notin gone)
        /\ tiles' = [id \in LoadIds |->
                       IF id \in gone THEN [tiles[id] EXCEPT !.evicted = TRUE] ELSE tiles[id]]
  /\ UNCHANGED <<loadingTiles, loadingControllers, nextId, retinaAvailable, fixedVars, now,
                 reloads, nextReload, layerVars, renderScheduled, mapVars>>

\* the idle callback of _reloadTile: doReload starts the refresh image
DoReload(r) ==
  /\ reloads[r].st = "scheduled"
  /\ reloads' = [reloads EXCEPT ![r].st = "loading"]
  /\ loadingTiles' = loadingTiles \cup {RefTok(reloads[r].key)}
  /\ UNCHANGED <<tiles, tileCache, loadingControllers, nextId, retinaAvailable, fixedVars, now,
                 evictJobs, nextReload, layerVars, renderScheduled, mapVars>>

\* img.onload of the refresh image, without existing.loadedAt = Date.now()
ReloadImgLoadStale(r) ==
  /\ reloads[r].st = "loading"
  /\ reloads' = [reloads EXCEPT ![r].st = "done"]
  /\ tiles' = [tiles EXCEPT ![reloads[r].tile].shown = r, ![reloads[r].tile].loaded = TRUE]
  /\ loadingTiles' = loadingTiles \ {RefTok(reloads[r].key)}
  /\ renderScheduled' = (renderScheduled \/ Attached)
  /\ UNCHANGED <<tileCache, loadingControllers, nextId, retinaAvailable, fixedVars, now,
                 evictJobs, nextReload, layerVars, mapVars>>

\* img.onload of the refresh image
ReloadImgLoad(r) ==
  /\ reloads[r].st = "loading"
  /\ reloads' = [reloads EXCEPT ![r].st = "done"]
  /\ tiles' = [tiles EXCEPT ![reloads[r].tile].shown = r, ![reloads[r].tile].loaded = TRUE,
                            ![reloads[r].tile].loadedAt = now]
  /\ loadingTiles' = loadingTiles \ {RefTok(reloads[r].key)}
  /\ renderScheduled' = (renderScheduled \/ Attached)
  /\ UNCHANGED <<tileCache, loadingControllers, nextId, retinaAvailable, fixedVars, now,
                 evictJobs, nextReload, layerVars, mapVars>>

\* img.onerror of the refresh image
ReloadImgError(r) ==
  /\ reloads[r].st = "loading"
  /\ reloads' = [reloads EXCEPT ![r].st = "done"]
  /\ loadingTiles' = loadingTiles \ {RefTok(reloads[r].key)}
  /\ UNCHANGED <<tiles, tileCache, loadingControllers, nextId, retinaAvailable, fixedVars, now,
                 evictJobs, nextReload, layerVars, renderScheduled, mapVars>>

(***************************************************************************)
(* Layers of the map.  L1 is the tile layer whose cache is modelled, OSM   *)
(* and ESRI the shared instances of TILE_LAYERS, G a GeoJSON layer.        *)
(***************************************************************************)
LayerIds == {"L1", "L2", "OSM", "ESRI", "G"}
IsTileLayer(l) == l \in {"L1", "L2", "OSM", "ESRI"}

\* TileLayer.onRemove of L1: abort every controller, clear the three collections
TileOnRemove ==
  /\ tiles' = [id \in LoadIds |->
                 IF \E k \in Keys : loadingControllers[k] = id
                 THEN [tiles[id] EXCEPT !.aborted = TRUE] ELSE tiles[id]]
  /\ loadingTiles' = {}
  /\ loadingControllers' = [k \in Keys |-> 0]
  /\ tileCache' = <<>>
  /\ UNCHANGED <<nextId, retinaAvailable, fixedVars, now, evictJobs, reloads, nextReload>>

\* a call of TileLayer.onRemove on L1 by the application, whether the layer is on
\* the map or has been removed already
OnRemoveCall == TileOnRemove /\ UNCHANGED <<layerVars, renderScheduled, mapVars>>

\* layer.onRemove()
OnRemove(l) == IF l = "L1" THEN TileOnRemove ELSE UNCHANGED tileVars

\* this._layers.find(l => l instanceof TileLayer) || null
FirstTileLayer(ls) ==
  IF \E i \in DOMAIN ls : IsTileLayer(ls[i])
  THEN ls[CHOOSE i \in DOMAIN ls : IsTileLayer(ls[i]) /\ \A j \in 1..(i - 1) : ~IsTileLayer(ls[j])]
  ELSE "none"

\* the layer list and base layer after removeLayer(l)
LayersAfterRemove(ls, l) == SelectSeq(ls, LAMBDA x : x # l)
BaseAfterRemove(ls, b, l) == IF b = l THEN FirstTileLayer(LayersAfterRemove(ls, l)) ELSE b

\* the layer list and base layer after addLayer(l)
LayersAfterAdd(ls, l) == IF l \in Range(ls) THEN ls ELSE Append(ls, l)
BaseAfterAdd(ls, b, l) == IF l \notin Range(ls) /\ b = "none" THEN l ELSE b

\* Atlas.addLayer
AddLayer(l) ==
  /\ layers' = LayersAfterAdd(layers, l)
  /\ baseLayer' = BaseAfterAdd(layers, baseLayer, l)
  /\ renderScheduled' = (renderScheduled \/ l \notin Range(layers))
  /\ fired' = <<>>
  /\ UNCHANGED <<tileVars, viewVars, jobVars, gestureVars>>

\* Atlas.removeLayer
RemoveLayer(l) ==
  /\ layers' = LayersAfterRemove(layers, l)
  /\ baseLayer' = IF l \in Range(layers) THEN BaseAfterRemove(layers, baseLayer, l) ELSE baseLayer
  /\ renderScheduled' = (renderScheduled \/ l \in Range(layers))
  /\ IF l \in Range(layers) THEN OnRemove(l) ELSE UNCHANGED tileVars
  /\ fired' = <<>>
  /\ UNCHANGED <<viewVars, jobVars, gestureVars>>

(***************************************************************************)
(* The viewport: pure functions.                                           *)
(***************************************************************************)
Z(l) == 8 * l
Max(a, b) == IF a >= b THEN a ELSE b
Min(a, b) == IF a <= b THEN a ELSE b

\* GISUtils.wrapLongitude: the two while loops
RECURSIVE wrapLongitude(_)
wrapLongitude(l) ==
  IF l > 180 THEN wrapLongitude(l - 360)
  ELSE IF l < -180 THEN wrapLongitude(l + 360)
  ELSE l

\* GISUtils.clampLatitude
clampLatitudeOff(lat) == lat
clampLatitude(lat) == Max(MIN_LATITUDE, Min(MAX_LATITUDE, lat))

\* wrapDeltaLon: (((delta + 180) % 360) + 360) % 360 - 180
wrapDeltaLonRaw(delta) == delta
wrapDeltaLon(delta) == ((delta + 180) % 360) - 180

\* normalizeAngle: atan2(sin, cos), the angle within -180..180 degrees; a half turn
\* keeps the sign of the argument, as the sine of a multiple of pi does in floating
\* point
normalizeAngle(a) ==
  LET r == ((a + 180) % 360) - 180
  IN IF r = -180 /\ a > 0 THEN 180 ELSE r

shortestAngleDiff(from, to) == normalizeAngle(to - from)

\* start + delta * p for the eased progress p = q / PDen, on the grid
Interpolate(start, delta, q) == start + ((delta * q) \div PDen)

\* TileLayer.getMinZoom / getMaxZoom: LAYERS.OSM and LAYERS.ESRI are 0..19, L2 is
\* made with the option minZoom 1, the other options take the constructor's defaults
getMinZoom(l) == IF l = "L2" THEN Z(1) ELSE Z(0)
getMaxZoom(l) == IF l \in {"OSM", "ESRI"} THEN Z(19) ELSE Z(18)

\* the zoom range of base layer b: this._baseLayer ? getMinZoom() : 0, getMaxZoom() : 18
MinZoom(b) == IF b = "none" THEN Z(0) ELSE getMinZoom(b)
MaxZoom(b) == IF b = "none" THEN Z(18) ELSE getMaxZoom(b)
ClampZoom(b, z) == Max(MinZoom(b), Min(MaxZoom(b), z))

\* a displacement on the ground, and the one of a point at the canvas centre
Origin == [lon |-> 0, lat |-> 0]

\* 1000 * 2^(k / 8) for the eighths k of a zoom level, rounded: the factor of ts
Pow2Eighths == <<1000, 1091, 1189, 1297, 1414, 1542, 1682, 1834>>

\* 1000 * cos and 1000 * sin of the multiples of 15 degrees up to a quarter turn
CosTable == <<1000, 966, 866, 707, 500, 259, 0>>
Cos1000(b) ==
  LET t == (b % 360) \div 15
  IN IF t <= 6 THEN CosTable[t + 1]
     ELSE IF t <= 12 THEN -CosTable[13 - t]
     ELSE IF t <= 18 THEN -CosTable[t - 11]
     ELSE CosTable[25 - t]
Sin1000(b) == Cos1000(b - 90)

\* x * n / m on the grid, rounded towards zero
Scaled(x, n, m) == IF x * n >= 0 THEN (x * n) \div m ELSE -((-(x * n)) \div m)

\* rot(x, y, ang) of a displacement; lat grows against screen y
rot(v, ang) ==
  [lon |-> Scaled(v.lon * Cos1000(ang) + v.lat * Sin1000(ang), 1, 1000),
   lat |-> Scaled(v.lat * Cos1000(ang) - v.lon * Sin1000(ang), 1, 1000)]

\* x / ts and x * ts for the tile size ts at zoom z, a whole power of two at a whole
\* zoom level
ScaleDown(x, z) ==
  IF z % 8 = 0 THEN Scaled(x, 1, 2 ^ (z \div 8))
  ELSE Scaled(x, 1000, (2 ^ (z \div 8)) * Pow2Eighths[(z % 8) + 1])
ScaleUp(x, z) ==
  IF z % 8 = 0 THEN x * (2 ^ (z \div 8))
  ELSE Scaled(x * (2 ^ (z \div 8)), Pow2Eighths[(z % 8) + 1], 1000)

\* rot(anchorVec.x / ts, anchorVec.y / ts, -bearing): the displacement on the ground
\* of the screen point at offset o from the canvas centre
ScreenToGround(o, z, b) == rot([lon |-> ScaleDown(o.lon, z), lat |-> ScaleDown(o.lat, z)], -b)

\* rot(trX, trY, bearing) for trX = (pt.x - ct.x) * ts: the offset from the canvas
\* centre of the point displaced by d on the ground
GroundToScreen(d, z, b) == rot([lon |-> ScaleUp(d.lon, z), lat |-> ScaleUp(d.lat, z)], b)

\* the anchor pixel's offset from the canvas centre, in degrees at zoom 0
AnchorOffset(a) ==
  CASE a = "centre" -> Origin
    [] a = "north" -> [lon |-> 0, lat |-> 64]
    [] a = "south" -> [lon |-> 0, lat |-> -64]

\* the displacement from the map centre of screen anchor a at a zoom and bearing:
\* rot(anchorVec / ts, -bearing) in tiles of zInt, which is zero for the canvas centre
AnchorVec(a, z, b) == ScreenToGround(AnchorOffset(a), z, b)

\* Atlas.screenToLatLon of the screen point displaced by d from the centre c
screenToLatLon(c, d) ==
  [lon |-> wrapLongitude(c.lon + d.lon),
   lat |-> clampLatitude(clampLatitude(c.lat) + d.lat)]

\* the x of projection.latLngToTile at the integer zoom of z, in 360ths of a tile:
\* (lon + 180) / 360 * 2^zInt
latLngToTileX(lon, z) == (lon + 180) * (2 ^ (z \div 8))

\* ct.x of TileLayer.render: the tile-space x of the centre, taken from the wrapped
\* longitude
RenderCentreX == latLngToTileX(wrapLongitude(center.lon), zoom)

\* Atlas.latLngToContainerPoint of p in the view c, z, b, as an offset from the
\* canvas centre; project clamps the latitude of p and of the centre
latLngToContainerPoint(c, z, b, p) ==
  GroundToScreen([lon |-> p.lon - c.lon, lat |-> clampLatitude(p.lat) - clampLatitude(c.lat)],
                 z, b)

\* Atlas.applyZoomRotateAbout under base layer b: the view that keeps anchorLL at the
\* screen anchor a, displaced by v from the new centre at the clamped zoom
applyZoomRotateAbout(b, a, newZoom, newBearing, anchorLL) ==
  LET v == AnchorVec(a, ClampZoom(b, newZoom), newBearing)
  IN [center |-> [lon |-> wrapLongitude(anchorLL.lon - v.lon),
                  lat |-> clampLatitude(clampLatitude(anchorLL.lat) - v.lat)],
      zoom |-> ClampZoom(b, newZoom),
      bearing |-> normalizeAngle(newBearing)]

(***************************************************************************)
(* Values of JavaScript that an option of the caller can hold, and the     *)
(* constructor of Atlas on them.                                           *)
(***************************************************************************)
Num(n) == [t |-> "number", v |-> n]
NumStr(n) == [t |-> "string", v |-> n]
Text == [t |-> "text", v |-> 0]
Undefined == [t |-> "undefined", v |-> 0]
Null == [t |-> "null", v |-> 0]
NaN == [t |-> "NaN", v |-> 0]

\* the conversion that <, >, -=, += and Math.min apply to an operand: a string of
\* digits n is NumStr(n), any other string Text
ToNumber(x) ==
  CASE x.t = "number" -> x
    [] x.t = "string" -> Num(x.v)
    [] x.t = "null" -> Num(0)
    [] OTHER -> NaN

\* GISUtils.wrapLongitude on a value: the loops run while the comparison holds,
\* and the value that no loop has touched is returned as it came
wrapLongitudeOf(l) ==
  LET n == ToNumber(l)
  IN IF n.t = "number" /\ (n.v > 180 \/ n.v < -180) THEN Num(wrapLongitude(n.v)) ELSE l

\* GISUtils.clampLatitude on a value: Math.max(MIN_LATITUDE, Math.min(MAX_LATITUDE, lat))
clampLatitudeOf(lat) ==
  LET n == ToNumber(lat)
  IN IF n.t = "number" THEN Num(clampLatitude(n.v)) ELSE NaN

\* new Atlas(id, options): the two elements looked up in the document are there or
\* not, dc is options.defaultCenter after Object.assign(CONFIG, options)
AtlasConstructor(hasContainer, hasCanvas, dc) ==
  IF ~hasContainer \/ ~hasCanvas THEN [threw |-> TRUE]
  ELSE IF dc.t \in {"undefined", "null"} THEN [threw |-> TRUE]
  ELSE [threw |-> FALSE,
        center |-> [lon |-> wrapLongitudeOf(dc.lon), lat |-> clampLatitudeOf(dc.lat)]]

\* the application calls screenToLatLon for the screen point at offset o from the
\* canvas centre
ScreenToLatLonCall(o) ==
  /\ call' = [op |-> "screenToLatLon", at |-> o, center |-> center,
              out |-> screenToLatLon(center, ScreenToGround(o, zoom, bearing))]
  /\ UNCHANGED stateVars

\* the application calls screenToLatLon(pt.x, pt.y) for pt = latLngToContainerPoint(p)
RoundTripCall(p) ==
  LET pt == latLngToContainerPoint(center, zoom, bearing, p)
  IN /\ call' = [op |-> "roundTrip", p |-> p, at |-> pt, center |-> center,
                 out |-> screenToLatLon(center, ScreenToGround(pt, zoom, bearing))]
     /\ UNCHANGED stateVars

\* the application runs new Atlas(id, options)
NewAtlas(hasContainer, hasCanvas, dc) ==
  /\ call' = [op |-> "new Atlas", hasContainer |-> hasContainer, hasCanvas |-> hasCanvas,
              defaultCenter |-> dc, out |-> AtlasConstructor(hasContainer, hasCanvas, dc)]
  /\ UNCHANGED stateVars

(***************************************************************************)
(* WebMercatorProjection.  Metres are counted in thousandths of the earth  *)
(* radius, and a value is rounded to the nearest unit where the code keeps *)
(* a double.  A tile coordinate is counted in units of 1 / TileUnit of a   *)
(* tile, so that the division by the circumference is exact.               *)
(***************************************************************************)
\* Math.PI * EARTH_RADIUS
PiRadius == 3142
TileUnit == 2 * PiRadius
Infinity == 100000
\* d * DEG2RAD, the length of a degree of longitude, in thousandths of a unit
DegreeLength == 17453

RoundDiv(a, b) == (2 * a + b) \div (2 * b)

\* d * Math.log((1 + sin) / (1 - sin)) / 2 for the latitudes 0..89 in whole degrees
MercatorTable ==
  <<0, 17, 35, 52, 70, 87, 105, 122, 140, 158,
    175, 193, 211, 229, 247, 265, 283, 301, 319, 338,
    356, 375, 394, 413, 432, 451, 470, 490, 509, 529,
    549, 570, 590, 611, 632, 653, 674, 696, 718, 740,
    763, 786, 809, 833, 857, 881, 906, 932, 957, 984,
    1011, 1038, 1066, 1095, 1124, 1154, 1185, 1217, 1249, 1283,
    1317, 1352, 1389, 1427, 1466, 1506, 1549, 1592, 1638, 1686,
    1735, 1788, 1843, 1901, 1962, 2028, 2097, 2172, 2253, 2340,
    2436, 2542, 2660, 2794, 2949, 3131, 3355, 3643, 4048, 4741>>

\* the logarithm is infinite at the poles, where sin is 1 or -1
MercatorY(lat) ==
  IF lat >= 90 THEN Infinity
  ELSE IF lat <= -90 THEN -Infinity
  ELSE IF lat >= 0 THEN MercatorTable[lat + 1] ELSE -MercatorTable[1 - lat]

\* (2 * Math.atan(Math.exp(y / d)) - Math.PI / 2) * RAD2DEG: the latitude whose
\* projection is y, to the nearest degree
InverseMercatorY(y) ==
  CHOOSE l \in -90..90 :
    /\ l = -90 \/ 2 * y >= MercatorY(l - 1) + MercatorY(l)
    /\ l = 90 \/ 2 * y < MercatorY(l) + MercatorY(l + 1)

\* project without the clamp of the latitude
projectUnclamped(latlng) ==
  [x |-> RoundDiv(latlng.lon * DegreeLength, 1000),
   y |-> MercatorY(latlng.lat)]

project(latlng) ==
  LET lat == Max(Min(MAX_LATITUDE, latlng.lat), -MAX_LATITUDE)
  IN [x |-> RoundDiv(latlng.lon * DegreeLength, 1000),
      y |-> MercatorY(lat)]

unproject(point) ==
  [lon |-> RoundDiv(point.x * 1000, DegreeLength),
   lat |-> InverseMercatorY(point.y)]

latLngToTile(latlng, z) ==
  LET scale == 2 ^ (z \div 8)
      projected == project(latlng)
  IN [x |-> (projected.x + PiRadius) * scale,
      y |-> (PiRadius - projected.y) * scale]

tileToLatLng(x, y, z) ==
  LET scale == 2 ^ (z \div 8)
  IN unproject([x |-> RoundDiv(x, scale) - PiRadius,
                y |-> PiRadius - RoundDiv(y, scale)])

\* the application calls unproject(project(p))
ProjectCall(p) ==
  /\ call' = [op |-> "project", p |-> p, projected |-> project(p),
              out |-> unproject(project(p))]
  /\ UNCHANGED stateVars

\* the application calls tileToLatLng(t.x, t.y, z) for t = latLngToTile(p, z)
LatLngToTileCall(p, z) ==
  LET t == latLngToTile(p, z)
  IN /\ call' = [op |-> "latLngToTile", p |-> p, z |-> z, projected |-> project(p),
                 tile |-> t, out |-> tileToLatLng(t.x, t.y, z)]
     /\ UNCHANGED stateVars

(***************************************************************************)
(* DragPanHandler._moveSamples.  A drag followed sample by sample: the     *)
(* clock performance.now() counts milliseconds, the pointer moves along    *)
(* one axis in pixels, and call holds the clock, the pointer and the list  *)
(* of samples between the events of the drag.                              *)
(***************************************************************************)
VELOCITY_WINDOW_MS == 120

\* the while loop of _pushVelocitySample: shift samples older than the cutoff
RECURSIVE ShiftOld(_, _)
ShiftOld(samples, cutoff) ==
  IF Len(samples) > 0 /\ samples[1].t < cutoff THEN ShiftOld(Tail(samples), cutoff)
  ELSE samples

pushVelocitySample(samples, t, x) ==
  ShiftOld(Append(samples, [t |-> t, x |-> x]), t - VELOCITY_WINDOW_MS)

\* the while loop of _computeVelocity, from index i down (the list counts from 1)
RECURSIVE RefIndex(_, _)
RefIndex(samples, i) ==
  IF i > 1 /\ samples[Len(samples)].t - samples[i].t < VELOCITY_WINDOW_MS \div 2
  THEN RefIndex(samples, i - 1)
  ELSE i

\* (last.x - ref.x) / Math.max(1, last.t - ref.t), in hundredths of a pixel per
\* millisecond, rounded towards zero
VelocityBetween(ref, last) ==
  LET dt == Max(1, last.t - ref.t)
      dx == last.x - ref.x
  IN IF dx >= 0 THEN (100 * dx) \div dt ELSE -((100 * (-dx)) \div dt)

computeVelocity(samples) ==
  IF Len(samples) < 2 THEN 0
  ELSE VelocityBetween(samples[RefIndex(samples, Len(samples) - 1)], samples[Len(samples)])

\* Math.hypot(vx, vy) of a velocity along one axis
Speed(v) == IF v >= 0 THEN v ELSE -v

\* _startDrag at the pointer position x, the clock at t
PointerDown(t, x) ==
  /\ call' = [op |-> "startDrag", t |-> t, x |-> x, moves |-> 0,
              samples |-> pushVelocitySample(<<>>, t, x)]
  /\ UNCHANGED stateVars

\* _onMouseMove dt milliseconds after the last event, the pointer moved by dx
PointerMove(dt, dx) ==
  /\ call.op \in {"startDrag", "mouseMove"}
  /\ call.moves < MaxSamples
  /\ call' = [op |-> "mouseMove", t |-> call.t + dt, x |-> call.x + dx,
              moves |-> call.moves + 1,
              samples |-> pushVelocitySample(call.samples, call.t + dt, call.x + dx)]
  /\ UNCHANGED stateVars

\* _onMouseUp dt milliseconds after the last event: _endDrag computes the velocity
\* and _startInertia starts the inertia unless the speed is below INERTIA_STOP_SPEED
PointerUp(dt) ==
  /\ call.op \in {"startDrag", "mouseMove"}
  /\ call' = [op |-> "mouseUp", t |-> call.t + dt, x |-> call.x, moves |-> call.moves,
              samples |-> call.samples,
              out |-> computeVelocity(call.samples),
              inertia |-> Speed(computeVelocity(call.samples)) >= INERTIA_STOP_SPEED]
  /\ UNCHANGED stateVars

(***************************************************************************)
(* TileLayer._preloadAdjacentZoomTiles: the zoom levels it issues loads    *)
(* for.  Levels are whole numbers, the map zoom is in eighths of a level.  *)
(***************************************************************************)
\* the levels dz of the loop that are not skipped, for layer l at map zoom z;
\* Math.abs(zoom - zInt) > 0.3 is 10 * (z - 8 * zInt) > 3 * 8 in eighths
preloadLevels(l, z) ==
  LET zInt == z \div 8
      nextZoom == Min(getMaxZoom(l) \div 8, zInt + 1)
      prevZoom == Max(getMinZoom(l) \div 8, zInt - 1)
  IN IF 10 * (z - 8 * zInt) > 3 * 8 THEN {}
     ELSE {dz \in {prevZoom, nextZoom} : dz # zInt}

\* the call of _preloadAdjacentZoomTiles that ends TileLayer.render of L1
PreloadAdjacentZoomTiles ==
  /\ Attached
  /\ call' = [op |-> "preload", zoom |-> zoom, levels |-> preloadLevels("L1", zoom)]
  /\ UNCHANGED stateVars

(***************************************************************************)
(* Atlas.scheduleRender and the frame callback it registers, with the      *)
(* queue of requestAnimationFrame: R.queue counts the callbacks registered *)
(* for the next frame, R.requests the calls of render() since the          *)
(* callbacks of the last frame began, R.frames records, for every frame    *)
(* that ran a callback, the requests it served and the runs of _draw.      *)
(***************************************************************************)
\* the map after its constructor: this.renderScheduled = false
NewRenderState == [op |-> "new", renderScheduled |-> FALSE, queue |-> 0, requests |-> 0,
                   draws |-> 0, frames |-> <<>>]
RenderState == IF call.op \in {"render", "frame"} THEN call ELSE NewRenderState

\* scheduleRender without its first line
scheduleRenderUnguarded(R) ==
  [R EXCEPT !.renderScheduled = TRUE, !.queue = @ + 1]

scheduleRender(R) ==
  IF R.renderScheduled THEN R
  ELSE [R EXCEPT !.renderScheduled = TRUE, !.queue = @ + 1]

\* the callback of requestAnimationFrame: the flag is reset, then _draw runs; again:
\* a listener of moveend, fired at the end of _draw, calls render()
frameCallback(R, again) ==
  LET R1 == [R EXCEPT !.renderScheduled = FALSE, !.draws = @ + 1]
  IN IF again THEN [scheduleRender(R1) EXCEPT !.requests = @ + 1] ELSE R1

\* the browser runs the k callbacks registered for this frame, one after another
RECURSIVE RunCallbacks(_, _, _)
RunCallbacks(R, k, again) ==
  IF k = 0 THEN R ELSE RunCallbacks(frameCallback(R, again), k - 1, again)

\* a call of Atlas.render by a handler or by the application
RenderCall ==
  /\ RenderState.requests < MaxRenders
  /\ call' = [scheduleRender(RenderState) EXCEPT !.op = "render", !.requests = @ + 1]
  /\ UNCHANGED stateVars

\* an animation frame for which a callback is registered
AnimationFrame(again) ==
  /\ RenderState.queue > 0
  /\ Len(RenderState.frames) < MaxFrames
  /\ LET R == RunCallbacks([RenderState EXCEPT !.queue = 0, !.requests = 0, !.draws = 0],
                           RenderState.queue, again)
     IN call' = [R EXCEPT !.op = "frame",
                          !.frames = Append(@, [requests |-> RenderState.requests,
                                                draws |-> R.draws])]
  /\ UNCHANGED stateVars

(***************************************************************************)
(* CONFIG, the object of defaults that the script shares between the maps  *)
(* of a page, and the constructor of Atlas reading its centre and zoom     *)
(* from it.  An options object is a function on the names it defines.      *)
(***************************************************************************)
CONFIG == [defaultLayer |-> "OSM", defaultCenter |-> Origin, defaultZoom |-> Z(3)]
NoOptions == [k \in {} |-> 0]

\* Object.assign(target, source), which writes into target
ObjectAssign(target, source) ==
  [k \in DOMAIN target \cup DOMAIN source |-> IF k \in DOMAIN source THEN source[k] ELSE target[k]]

\* CONFIG as the constructors run so far have left it
CurrentConfig == IF call.op = "construct" THEN call.CONFIG ELSE CONFIG

\* new Atlas(id, options) on a page that has the container and the canvas
ConstructAtlas(options) ==
  LET C == ObjectAssign(CurrentConfig, options)
  IN /\ call' = [op |-> "construct", options |-> options, CONFIG |-> C,
                 center |-> [lon |-> wrapLongitude(C.defaultCenter.lon),
                             lat |-> clampLatitude(C.defaultCenter.lat)],
                 zoom |-> C.defaultZoom]
     /\ UNCHANGED stateVars

(***************************************************************************)
(* Atlas1.js: the markers of a map.  A marker id "marker_n" is the number  *)
(* n; call holds this.markers, the number of markers added so far and the  *)
(* value the last call returned.                                           *)
(***************************************************************************)
MarkerState == IF call.op \in {"addMarker", "removeMarker"} THEN call
               ELSE [op |-> "new", markers |-> <<>>, added |-> 0, out |-> 0]

\* this.markers.findIndex(m => m.id === id), 0 for -1
FindIndex(markers, id) ==
  IF \E i \in DOMAIN markers : markers[i].id = id
  THEN CHOOSE i \in DOMAIN markers : markers[i].id = id /\ \A j \in 1..(i - 1) : markers[j].id # id
  ELSE 0

\* this.markers.splice(index, 1)
Splice(markers, index) ==
  [i \in 1..(Len(markers) - 1) |-> IF i < index THEN markers[i] ELSE markers[i + 1]]

\* addMarker(lat, lon) without options.id
AddMarker(lat, lon) ==
  /\ MarkerState.added < MaxMarkers
  /\ LET id == Len(MarkerState.markers)
     IN call' = [op |-> "addMarker", added |-> MarkerState.added + 1, out |-> id,
                 markers |-> Append(MarkerState.markers, [id |-> id, lat |-> lat, lon |-> lon])]
  /\ UNCHANGED stateVars

\* removeMarker(id)
RemoveMarker(id) ==
  /\ LET index == FindIndex(MarkerState.markers, id)
     IN call' = [op |-> "removeMarker", added |-> MarkerState.added, out |-> index > 0,
                 markers |-> IF index > 0 THEN Splice(MarkerState.markers, index)
                             ELSE MarkerState.markers]
  /\ UNCHANGED stateVars

(***************************************************************************)
(* AttributionControl.  A string is a sequence of pieces: a piece is a     *)
(* tag as it is written, "<script>" or "</script>", or a run of other      *)
(* characters.  The children of the container are text nodes and elements. *)
(***************************************************************************)
Tags == {"<script>", "</script>"}

\* what the HTML parser makes of a string: an element for every opening tag, a text
\* node for every run of characters, the text of a script element included
ParseHTML(s) ==
  LET kept == SelectSeq(s, LAMBDA x : x # "</script>")
  IN [i \in DOMAIN kept |->
        IF kept[i] = "<script>" THEN [kind |-> "element", tag |-> "script"]
        ELSE [kind |-> "text", data |-> <<kept[i]>>]]

\* container.innerHTML = s: the children after the assignment
SetInnerHTML(s) == ParseHTML(s)

\* the assignment of s as markup
SetTextContentAsMarkup(s) == ParseHTML(s)

\* container.textContent = s: the children after the assignment
SetTextContent(s) == IF s = <<>> THEN <<>> ELSE <<[kind |-> "text", data |-> s]>>

\* the text that _update assigns, for the option prefix and the attribution
AttributionText(prefix, attribution) ==
  prefix \o (IF prefix # <<>> /\ attribution # <<>> THEN <<" | ">> ELSE <<>>) \o attribution

\* Atlas.updateAttribution on a map that has an AttributionControl made with the
\* option prefix; attribution is what getAttribution of the base layer returns,
\* the empty string for a map without a base layer
UpdateAttribution(prefix, attribution) ==
  /\ ~BaseLayerLacksMethods
  /\ baseLayer = "none" => attribution = <<>>
  /\ call' = [op |-> "updateAttribution", prefix |-> prefix, attribution |-> attribution,
              before |-> SetInnerHTML(prefix),
              out |-> SetTextContent(AttributionText(prefix, attribution))]
  /\ UNCHANGED stateVars

(***************************************************************************)
(* The viewport: inputs of the gestures and calls, and the part of the     *)
(* view the model explores.                                                *)
(***************************************************************************)
Anchors == {"centre"}
DefaultCenters == {[lon |-> 179, lat |-> 0]}
FlyCenters == {[lon |-> -177, lat |-> 0]}
ZoomInputs == {Z(0), Z(1)}
BearingInputs == {0, 15}
PinchZooms == {-Z(1), 0, Z(1)}
PinchTurns == {0, 15}

\* zoom levels and bearings the gestures are followed to
Explored(z) == z <= Z(ZoomSpan)
Turned(b) == b >= -15 * BearingSpan /\ b <= 15 * BearingSpan

NoJob == [on |-> FALSE]
NoPinch == [startZoom |-> 0, startBearing |-> 0, anchorLL |-> Origin, moved |-> FALSE]

(***************************************************************************)
(* The viewport: gestures, calls and frame callbacks.                      *)
(***************************************************************************)
\* Atlas.stopAnimations, as a step of a handler
stopInertiaOnly == inertiaRAF' = NoJob /\ UNCHANGED <<zoomAnim, flyAnim>>
stopAnimations == inertiaRAF' = NoJob /\ zoomAnim' = NoJob /\ flyAnim' = NoJob

\* Atlas.setZoom, as a step of a handler; its first statement calls
\* this._baseLayer.getMinZoom()
setZoom(z) ==
  LET nz == ClampZoom(baseLayer, z)
  IN /\ zoom' = IF BaseLayerLacksMethods THEN zoom ELSE nz
     /\ renderScheduled' = (renderScheduled \/ (~BaseLayerLacksMethods /\ nz # zoom))
     /\ UNCHANGED <<center, bearing>>

\* Atlas.setBearing, as a step of a handler
setBearing(rad) ==
  LET nr == normalizeAngle(rad)
  IN /\ bearing' = nr
     /\ renderScheduled' = (renderScheduled \/ nr # bearing)
     /\ UNCHANGED <<center, zoom>>

\* Atlas.animateZoomRotateAbout up to the scheduling of its first frame
animateZoomRotateAbout(a, toZoom, toBearing) ==
  /\ inertiaRAF' = NoJob
  /\ flyAnim' = NoJob
  /\ zoomAnim' = [on |-> TRUE, a |-> a, sZoom |-> zoom, toZoom |-> toZoom, sBear |-> bearing,
                  deltaBear |-> shortestAngleDiff(bearing, toBearing),
                  anchorLL |-> screenToLatLon(center, AnchorVec(a, zoom, bearing)), p |-> 0]
  /\ UNCHANGED viewVars

\* Atlas.setBaseLayer: removeLayer of the old base layer, then addLayer of the new
\* layer or, when it is already on the map, the assignment and the zoom clamp
setBaseLayer(newLayer) ==
  LET drop == baseLayer # "none" /\ baseLayer # newLayer
      ls1 == IF drop THEN LayersAfterRemove(layers, baseLayer) ELSE layers
      b1 == IF drop THEN BaseAfterRemove(layers, baseLayer, baseLayer) ELSE baseLayer
      here == newLayer \in Range(ls1)
  IN /\ layers' = LayersAfterAdd(ls1, newLayer)
     /\ baseLayer' = IF here THEN newLayer ELSE BaseAfterAdd(ls1, b1, newLayer)
     /\ zoom' = IF here THEN Max(getMinZoom(newLayer), Min(getMaxZoom(newLayer), zoom)) ELSE zoom
     /\ renderScheduled' = TRUE
     /\ IF drop THEN OnRemove(baseLayer) ELSE UNCHANGED tileVars
     /\ UNCHANGED <<center, bearing>>

\* DragPanHandler._onMouseDown / one-finger _onTouchStart: _startDrag.  One pointer
\* device is in use: no press arrives during a drag or a pinch.
StartDrag ==
  /\ fired' = <<>>
  /\ ~isDragging
  /\ ~isPinching
  /\ isDragging' = TRUE
  /\ stopAnimations
  /\ dragStart' = center
  /\ moveSamples' = 1
  /\ UNCHANGED <<viewVars, isPinching, pinch, tileVars, layerVars, renderScheduled>>

\* DragPanHandler._onMouseMove / _onTouchMove by displacement d; n samples stay
\* within the velocity window
DragMove(d, n) ==
  /\ fired' = <<>>
  /\ isDragging
  /\ center' = screenToLatLon(dragStart, d)
  /\ moveSamples' = n
  /\ renderScheduled' = TRUE
  /\ UNCHANGED <<zoom, bearing, jobVars, isDragging, dragStart, isPinching, pinch,
                 tileVars, layerVars>>

\* DragPanHandler._onMouseUp / _onTouchEnd: _endDrag and _startInertia at the
\* speed v that _computeVelocity finds.  _dragStart and _moveSamples are not read
\* again before _startDrag overwrites them: the model forgets them here.
EndDrag(v) ==
  /\ fired' = <<>>
  /\ isDragging
  /\ moveSamples < 2 => v = 0
  /\ isDragging' = FALSE
  /\ dragStart' = Origin
  /\ moveSamples' = 0
  /\ inertiaRAF' = IF v < INERTIA_STOP_SPEED THEN inertiaRAF ELSE [on |-> TRUE, v |-> v]
  /\ UNCHANGED <<viewVars, zoomAnim, flyAnim, isPinching, pinch, tileVars, layerVars,
                 renderScheduled>>

\* the frame callback of _startInertia: step, over displacement d, the speed
\* falling by dec = INERTIA_DECEL * dt
InertiaFrameCoasting(d, dec) ==
  /\ inertiaRAF.on
  /\ center' = screenToLatLon(center, d)
  /\ inertiaRAF' = IF Max(0, inertiaRAF.v - dec) <= INERTIA_STOP_SPEED
                   THEN NoJob
                   ELSE inertiaRAF
  /\ renderScheduled' = TRUE
  /\ fired' = IF Max(0, inertiaRAF.v - dec) <= INERTIA_STOP_SPEED THEN <<"moveend">> ELSE <<>>
  /\ UNCHANGED <<zoom, bearing, zoomAnim, flyAnim, gestureVars, tileVars, layerVars>>

InertiaFrame(d, dec) ==
  /\ inertiaRAF.on
  /\ center' = screenToLatLon(center, d)
  /\ inertiaRAF' = IF Max(0, inertiaRAF.v - dec) <= INERTIA_STOP_SPEED
                   THEN NoJob
                   ELSE [on |-> TRUE, v |-> Max(0, inertiaRAF.v - dec)]
  /\ renderScheduled' = TRUE
  /\ fired' = IF Max(0, inertiaRAF.v - dec) <= INERTIA_STOP_SPEED THEN <<"moveend">> ELSE <<>>
  /\ UNCHANGED <<zoom, bearing, zoomAnim, flyAnim, gestureVars, tileVars, layerVars>>

\* ScrollZoomHandler._onWheel: smoothZoomAt
Wheel(a, dz) ==
  /\ fired' = <<>>
  /\ Explored(zoom + dz)
  /\ animateZoomRotateAbout(a, ClampZoom(baseLayer, zoom + dz), bearing)
  /\ UNCHANGED <<gestureVars, tileVars, layerVars, renderScheduled>>

\* DoubleClickZoomHandler._onDoubleClick
DoubleClick(a) ==
  /\ fired' = <<>>
  /\ Explored(zoom + Z(1))
  /\ animateZoomRotateAbout(a, zoom + Z(1), bearing)
  /\ UNCHANGED <<gestureVars, tileVars, layerVars, renderScheduled>>

\* the frame callback of animateZoomRotateAbout: step, at eased progress q / PDen
ZoomFrame(q) ==
  /\ zoomAnim.on
  /\ q >= zoomAnim.p
  /\ LET z == Interpolate(zoomAnim.sZoom, zoomAnim.toZoom - zoomAnim.sZoom, q)
         b == Interpolate(zoomAnim.sBear, zoomAnim.deltaBear, q)
         nv == applyZoomRotateAbout(baseLayer, zoomAnim.a, z, b, zoomAnim.anchorLL)
     IN /\ center' = nv.center
        /\ zoom' = nv.zoom
        /\ bearing' = nv.bearing
  /\ renderScheduled' = TRUE
  /\ zoomAnim' = IF q < PDen THEN [zoomAnim EXCEPT !.p = q] ELSE NoJob
  /\ fired' = IF q < PDen THEN <<>> ELSE <<"zoomend">>
  /\ UNCHANGED <<inertiaRAF, flyAnim, gestureVars, tileVars, layerVars>>

\* the two-finger touchstart: DragPanHandler ends its drag, then
\* TouchZoomRotateHandler._startPinch
StartPinch(a) ==
  /\ fired' = <<>>
  /\ ~isPinching
  /\ isDragging' = FALSE
  /\ stopAnimations
  /\ isPinching' = TRUE
  /\ pinch' = [startZoom |-> zoom, startBearing |-> bearing,
               anchorLL |-> screenToLatLon(center, AnchorVec(a, zoom, bearing)),
               moved |-> FALSE]
  /\ dragStart' = Origin
  /\ moveSamples' = 0
  /\ UNCHANGED <<viewVars, tileVars, layerVars, renderScheduled>>

\* the fields the two touchstart listeners read and write, as a value a listener
\* hands to the next one
TouchState ==
  [isDragging |-> isDragging, inertiaRAF |-> inertiaRAF, zoomAnim |-> zoomAnim,
   flyAnim |-> flyAnim, isPinching |-> isPinching, pinch |-> pinch]

\* DragPanHandler._endDrag on G, _computeVelocity finding the speed v
endDragOn(G, v) ==
  IF ~G.isDragging THEN G
  ELSE [G EXCEPT !.isDragging = FALSE,
                 !.inertiaRAF = IF v < INERTIA_STOP_SPEED THEN @ ELSE [on |-> TRUE, v |-> v]]

\* TouchZoomRotateHandler._startPinch without its call of stopAnimations
startPinchKeepingJobs(G, a) ==
  [G EXCEPT !.isPinching = TRUE,
            !.pinch = [startZoom |-> zoom, startBearing |-> bearing,
                       anchorLL |-> screenToLatLon(center, AnchorVec(a, zoom, bearing)),
                       moved |-> FALSE]]

\* TouchZoomRotateHandler._startPinch on G
startPinchOn(G, a) ==
  [G EXCEPT !.inertiaRAF = NoJob, !.zoomAnim = NoJob, !.flyAnim = NoJob,
            !.isPinching = TRUE,
            !.pinch = [startZoom |-> zoom, startBearing |-> bearing,
                       anchorLL |-> screenToLatLon(center, AnchorVec(a, zoom, bearing)),
                       moved |-> FALSE]]

\* DragPanHandler._onTouchStart for an event with two touches
dragPanOnTouchStart(G, v) == endDragOn(G, v)

\* TouchZoomRotateHandler._onTouchStart for an event with two touches
touchZoomRotateOnTouchStart(G, a, v) == startPinchOn(endDragOn(G, v), a)

\* the dispatch of a touchstart with two touches to the two listeners of the canvas,
\* the one of DragPanHandler first or second; v is the speed _computeVelocity
\* finds, 0 when the drag has fewer than two samples
TouchStartTwo(dragPanFirst, a, v) ==
  LET G == IF dragPanFirst
           THEN touchZoomRotateOnTouchStart(dragPanOnTouchStart(TouchState, v), a, v)
           ELSE dragPanOnTouchStart(touchZoomRotateOnTouchStart(TouchState, a, v), v)
  IN /\ ~isPinching
     /\ moveSamples < 2 => v = 0
     /\ isDragging' = G.isDragging
     /\ inertiaRAF' = G.inertiaRAF
     /\ zoomAnim' = G.zoomAnim
     /\ flyAnim' = G.flyAnim
     /\ isPinching' = G.isPinching
     /\ pinch' = G.pinch
     /\ fired' = <<>>
     /\ UNCHANGED <<viewVars, dragStart, moveSamples, tileVars, layerVars, renderScheduled>>

\* TouchZoomRotateHandler._onTouchMove: the fingers' distance changes the zoom by dz,
\* their angle the bearing by db
PinchMove(a, dz, db) ==
  /\ fired' = <<>>
  /\ isPinching
  /\ Explored(pinch.startZoom + dz)
  /\ LET targetBearing == normalizeAngle(pinch.startBearing + normalizeAngle(db))
         nv == applyZoomRotateAbout(baseLayer, a, pinch.startZoom + dz, targetBearing,
                                    pinch.anchorLL)
     IN /\ Turned(targetBearing)
        /\ center' = nv.center
        /\ zoom' = nv.zoom
        /\ bearing' = nv.bearing
  /\ pinch' = [pinch EXCEPT !.moved = @ \/ dz # 0 \/ db # 0]
  /\ renderScheduled' = TRUE
  /\ UNCHANGED <<jobVars, isDragging, dragStart, moveSamples, isPinching, tileVars, layerVars>>

\* TouchZoomRotateHandler._onTouchEnd leaving fewer than two fingers; tap: every
\* finger is lifted within TWO_FINGER_TAP_MAX_DELAY.  The _pinch* fields are not
\* read again before _startPinch overwrites them: the model forgets them here.
EndPinch(a, tap) ==
  /\ fired' = <<>>
  /\ isPinching
  /\ isPinching' = FALSE
  /\ pinch' = NoPinch
  /\ IF tap /\ ~pinch.moved
     THEN /\ Explored(zoom - Z(1))
          /\ animateZoomRotateAbout(a, zoom - Z(1), bearing)
     ELSE UNCHANGED <<viewVars, jobVars>>
  /\ UNCHANGED <<isDragging, dragStart, moveSamples, tileVars, layerVars, renderScheduled>>

\* TouchZoomRotateHandler._onTouchEnd for a touchend or touchcancel that leaves left
\* fingers on the screen; quick: performance.now() - _pinchStartTime is at most
\* TWO_FINGER_TAP_MAX_DELAY.  The listener stays registered on the canvas, and
\* returns at once when no pinch is on.
TouchEnd(a, left, quick) ==
  IF isPinching /\ left < 2 THEN EndPinch(a, left = 0 /\ quick)
  ELSE /\ fired' = <<>>
       /\ UNCHANGED <<viewVars, jobVars, gestureVars, tileVars, layerVars, renderScheduled>>

\* KeyboardPanHandler._onKeyDown; d is the displacement of panStepPx for an arrow key
KeyDown(k, d) ==
  /\ fired' = <<>>
  /\ CASE k \in {"ArrowLeft", "ArrowRight", "ArrowUp", "ArrowDown"} ->
            /\ IF k \in {"ArrowLeft", "ArrowRight"}
               THEN d.lat = 0 /\ d.lon # 0 /\ (d.lon > 0 <=> k = "ArrowLeft")
               ELSE d.lon = 0 /\ d.lat # 0 /\ (d.lat > 0 <=> k = "ArrowDown")
            /\ stopAnimations
            /\ center' = screenToLatLon(center, d)
            /\ renderScheduled' = TRUE
            /\ UNCHANGED <<zoom, bearing, gestureVars, tileVars, layerVars>>
       [] k = "n" ->
            /\ animateZoomRotateAbout("centre", zoom, 0)
            /\ UNCHANGED <<gestureVars, tileVars, layerVars, renderScheduled>>
       [] k \in {"r", "l"} ->
            /\ Turned(bearing + (IF k = "r" THEN 15 ELSE -15))
            /\ setBearing(bearing + (IF k = "r" THEN 15 ELSE -15))
            /\ UNCHANGED <<jobVars, gestureVars, tileVars, layerVars>>
       [] k = "s" ->
            /\ setBaseLayer(IF baseLayer = "ESRI" THEN "OSM" ELSE "ESRI")
            /\ UNCHANGED <<jobVars, gestureVars>>
       [] k \in {"+", "-"} ->
            /\ Explored(zoom + (IF k = "+" THEN Z(1) ELSE -Z(1)))
            /\ stopAnimations
            /\ setZoom(zoom + (IF k = "+" THEN Z(1) ELSE -Z(1)))
            /\ UNCHANGED <<gestureVars, tileVars, layerVars>>

\* a call of Atlas.setZoom
SetZoom(z) == setZoom(z) /\ fired' = <<>> /\ UNCHANGED <<jobVars, gestureVars, tileVars, layerVars>>

\* a call of Atlas.setBearing
SetBearing(rad) == setBearing(rad) /\ fired' = <<>> /\ UNCHANGED <<jobVars, gestureVars, tileVars, layerVars>>

\* a call of Atlas.setBaseLayer
SetBaseLayer(l) == setBaseLayer(l) /\ fired' = <<>> /\ UNCHANGED <<jobVars, gestureVars>>

\* a call of Atlas.stopAnimations
StopAnimations ==
  /\ fired' = <<>>
  /\ stopAnimations
  /\ UNCHANGED <<viewVars, gestureVars, tileVars, layerVars, renderScheduled>>

\* Atlas.flyTo up to the scheduling of its first frame; a zoom or bearing of 0 in
\* the options is falsy and gives way to the current one
FlyTo(o) ==
  LET c == IF o.hasCenter THEN o.center ELSE center
      z == IF o.zoom # 0 THEN o.zoom ELSE zoom
      b == IF o.bearing # 0 THEN o.bearing ELSE bearing
      eC == [lon |-> wrapLongitude(c.lon), lat |-> c.lat]
  IN /\ fired' = <<>>
     /\ inertiaRAF' = NoJob
     /\ zoomAnim' = NoJob
     /\ flyAnim' = [on |-> TRUE, sC |-> center, dLon |-> wrapDeltaLon(eC.lon - center.lon),
                    dLat |-> eC.lat - center.lat, sZ |-> zoom, eZ |-> ClampZoom(baseLayer, z),
                    sB |-> bearing, dB |-> shortestAngleDiff(bearing, b), p |-> 0]
     /\ UNCHANGED <<viewVars, gestureVars, tileVars, layerVars, renderScheduled>>

\* the frame callback of flyTo: step, at eased progress q / PDen; q = PDen is t >= 1
FlyFrame(q) ==
  /\ flyAnim.on
  /\ q >= flyAnim.p
  /\ LET currentLon == Interpolate(flyAnim.sC.lon, flyAnim.dLon, q)
     IN center' = [lon |-> IF q = PDen THEN wrapLongitude(currentLon) ELSE currentLon,
                   lat |-> clampLatitude(Interpolate(flyAnim.sC.lat, flyAnim.dLat, q))]
  /\ zoom' = Interpolate(flyAnim.sZ, flyAnim.eZ - flyAnim.sZ, q)
  /\ bearing' = normalizeAngle(Interpolate(flyAnim.sB, flyAnim.dB, q))
  /\ renderScheduled' = TRUE
  /\ flyAnim' = IF q < PDen THEN [flyAnim EXCEPT !.p = q] ELSE NoJob
  /\ fired' = IF q < PDen THEN <<>> ELSE <<"moveend">>
  /\ UNCHANGED <<inertiaRAF, zoomAnim, gestureVars, tileVars, layerVars>>

(***************************************************************************)
(* The state after construction: new TileLayer, and new Atlas with the     *)
(* options defaultCenter c and defaultZoom z.                              *)
(***************************************************************************)
TileLayerInit ==
  /\ tiles = [id \in LoadIds |-> NoTile]
  /\ tileCache = <<>>
  /\ loadingTiles = {}
  /\ loadingControllers = [k \in Keys |-> 0]
  /\ nextId = 1
  /\ retinaAvailable = TRUE
  /\ wantRetina \in BOOLEAN
  /\ call = NoCall
  /\ now = Clock[1]
  /\ evictJobs = 0
  /\ reloads = [r \in ReloadIds |-> NoReload]
  /\ nextReload = 1

AtlasInit(c, z) ==
  /\ center = [lon |-> wrapLongitude(c.lon), lat |-> clampLatitude(c.lat)]
  /\ zoom = z
  /\ bearing = 0
  /\ renderScheduled = TRUE
  /\ inertiaRAF = NoJob
  /\ zoomAnim = NoJob
  /\ flyAnim = NoJob
  /\ layers = <<>>
  /\ baseLayer = "none"
  /\ isDragging = FALSE
  /\ dragStart = Origin
  /\ moveSamples = 0
  /\ isPinching = FALSE
  /\ pinch = NoPinch
  /\ fired = <<>>

\* one tile layer and a map with the stock CONFIG: defaultCenter 0/0, defaultZoom 3
TileInit == TileLayerInit /\ AtlasInit(Origin, Z(3))

\* a render pass over the tile keys K: any visible list, any adjacent-zoom list
DrawOver(K) == \E vs \in KeySeqs(K) : \E ps \in KeySeqs(K \ Range(vs)) : Draw(vs, ps)

(***************************************************************************)
(* LoadSpec: the loading state machine of one tile key: render passes and  *)
(* prefetch, image and timer callbacks, layer removal and re-adding.       *)
(***************************************************************************)
LoadKeys == {1}

LoadNext ==
  \/ MapRender
  \/ DrawOver(LoadKeys)
  \/ \E id \in LoadIds : ImgLoad(id)
  \/ \E id \in LoadIds : ImgError(id)
  \/ \E id \in LoadIds : Timeout(id)
  \/ AddLayer("L1")
  \/ RemoveLayer("L1")

LoadSpec == TileInit /\ [][LoadNext]_vars

(***************************************************************************)
(* EvictSpec: the cache of several tile keys under render passes, the      *)
(* clock, load completions and the idle eviction callback.  The map sits   *)
(* at a fractional zoom more than 0.3 above its integer part, where        *)
(* _preloadAdjacentZoomTiles returns before its loop.                      *)
(***************************************************************************)
EvictInit == TileInit /\ ~wantRetina

EvictNext ==
  \/ MapRender
  \/ \E vs \in KeySeqs(Keys) : Draw(vs, <<>>)
  \/ Tick
  \/ \E id \in LoadIds : ImgLoad(id)
  \/ PerformEviction
  \/ AddLayer("L1")

EvictSpec == EvictInit /\ [][EvictNext]_vars

\* timers fire: every armed setTimeout callback eventually runs; the network
\* promises nothing, so image events carry no fairness
FairLoadSpec == LoadSpec /\ \A id \in LoadIds : WF_vars(Timeout(id))

(***************************************************************************)
(* The specifications of the map.  Each follows one map from construction  *)
(* under a set of gestures, calls and frame callbacks.  Its layers are     *)
(* OSM, ESRI and L2, whose caches the model does not follow, so a frame    *)
(* of scheduleRender leaves the tile state of L1 alone.                    *)
(***************************************************************************)
MapInit(c, z) == TileLayerInit /\ ~wantRetina /\ AtlasInit(c, z)

(***************************************************************************)
(* GestureSpec: the motion jobs under drags, wheel ticks, double-clicks,   *)
(* pinches, key presses, setters and flyTo.  Frames run at the start       *)
(* (progress 0) and at the end of an animation.                            *)
(***************************************************************************)
GestureKeys == {"ArrowLeft", "n", "r", "+", "-"}
GesturePans == {[lon |-> 120, lat |-> 0]}
GestureFlights == {[hasCenter |-> FALSE, center |-> Origin, zoom |-> Z(1), bearing |-> 0]}

GestureNext ==
  \/ Draw(<<>>, <<>>)
  \/ StartDrag
  \/ \E d \in GesturePans, n \in 1..2 : DragMove(d, n)
  \/ \E v \in 0..MaxSpeed : EndDrag(v)
  \/ \E d \in GesturePans, dec \in 1..MaxSpeed : InertiaFrame(d, dec)
  \/ \E a \in Anchors, dz \in {WHEEL_ZOOM_STEP, -WHEEL_ZOOM_STEP} : Wheel(a, dz)
  \/ \E a \in Anchors : DoubleClick(a)
  \/ \E q \in {0, PDen} : ZoomFrame(q)
  \/ \E a \in Anchors : StartPinch(a)
  \/ \E a \in Anchors, dz \in PinchZooms, db \in PinchTurns : PinchMove(a, dz, db)
  \/ \E a \in Anchors, tap \in BOOLEAN : EndPinch(a, tap)
  \/ \E k \in GestureKeys, d \in GesturePans : KeyDown(k, d)
  \/ \E z \in ZoomInputs : SetZoom(z)
  \/ \E b \in BearingInputs : SetBearing(b)
  \/ \E o \in GestureFlights : FlyTo(o)
  \/ \E q \in {0, PDen} : FlyFrame(q)

GestureSpec == MapInit(Origin, Z(1)) /\ [][GestureNext]_vars

(***************************************************************************)
(* ZoomSpec: the zoom and the base layer under setZoom, flyTo, anchored    *)
(* zoom, pinch, zoom keys, setBaseLayer, addLayer and removeLayer.         *)
(***************************************************************************)
ZoomLayers == {"OSM", "L2"}
ZoomKeys == {"+", "-", "s"}
ZoomFlights == {[hasCenter |-> FALSE, center |-> Origin, zoom |-> z, bearing |-> 0] :
                  z \in ZoomInputs}

ZoomNext ==
  \/ Draw(<<>>, <<>>)
  \/ \E z \in ZoomInputs : SetZoom(z)
  \/ \E o \in ZoomFlights : FlyTo(o)
  \/ \E q \in 0..PDen : FlyFrame(q)
  \/ \E a \in Anchors, dz \in {WHEEL_ZOOM_STEP, -WHEEL_ZOOM_STEP} : Wheel(a, dz)
  \/ \E a \in Anchors : DoubleClick(a)
  \/ \E q \in 0..PDen : ZoomFrame(q)
  \/ \E a \in Anchors : StartPinch(a)
  \/ \E a \in Anchors, dz \in PinchZooms : PinchMove(a, dz, 0)
  \/ \E a \in Anchors, tap \in BOOLEAN : EndPinch(a, tap)
  \/ \E k \in ZoomKeys : KeyDown(k, Origin)
  \/ \E l \in ZoomLayers : SetBaseLayer(l)
  \/ \E l \in ZoomLayers : AddLayer(l)
  \/ \E l \in ZoomLayers : RemoveLayer(l)

ZoomSpec == MapInit(Origin, Z(1)) /\ [][ZoomNext]_vars

(***************************************************************************)
(* FlySpec: the centre of a map near the antimeridian under flyTo, its     *)
(* frames, and what cancels it: stopAnimations, a drag (the pointer comes  *)
(* back to where it was pressed), a pinch, a wheel tick.                   *)
(***************************************************************************)
FlyFlights == {[hasCenter |-> TRUE, center |-> c, zoom |-> 0, bearing |-> 0] : c \in FlyCenters}

FlyNext ==
  \/ Draw(<<>>, <<>>)
  \/ \E o \in FlyFlights : FlyTo(o)
  \/ \E q \in 0..PDen : FlyFrame(q)
  \/ StopAnimations
  \/ StartDrag
  \/ DragMove(Origin, 1)
  \/ EndDrag(0)
  \/ \E a \in Anchors : StartPinch(a)
  \/ \E a \in Anchors : EndPinch(a, FALSE)
  \/ \E a \in Anchors : Wheel(a, -WHEEL_ZOOM_STEP)
  \/ \E q \in 0..PDen : ZoomFrame(q)

FlySpec == (\E c \in DefaultCenters : MapInit(c, Z(1))) /\ [][FlyNext]_vars

(***************************************************************************)
(* RemoveSpec: the loads of LoadSpec on a layer that is removed from the   *)
(* map and whose onRemove is called again.                                 *)
(***************************************************************************)
RemoveNext == LoadNext \/ OnRemoveCall

RemoveSpec == TileInit /\ [][RemoveNext]_vars

(***************************************************************************)
(* LatSpec: the latitude of a map constructed with a centre beyond the     *)
(* Mercator limit, under drags, inertia, the up and down keys, flyTo to    *)
(* latitudes beyond the limit and zooms about anchors off the centre.      *)
(***************************************************************************)
LatCenters == {[lon |-> 0, lat |-> 100]}
LatPans == {[lon |-> 0, lat |-> 170], [lon |-> 0, lat |-> -170]}
LatKeys == {"ArrowUp", "ArrowDown", "-"}
LatAnchors == {"north", "south"}
LatFlights == {[hasCenter |-> TRUE, center |-> [lon |-> 0, lat |-> l], zoom |-> 0, bearing |-> 0] :
                 l \in {-1000, 1000}}

LatNext ==
  \/ Draw(<<>>, <<>>)
  \/ StartDrag
  \/ \E d \in LatPans : DragMove(d, 2)
  \/ \E v \in {0, MaxSpeed} : EndDrag(v)
  \/ \E d \in LatPans : InertiaFrame(d, MaxSpeed)
  \/ \E k \in LatKeys, d \in LatPans : KeyDown(k, d)
  \/ \E o \in LatFlights : FlyTo(o)
  \/ \E q \in 0..PDen : FlyFrame(q)
  \/ \E a \in LatAnchors : DoubleClick(a)
  \/ \E q \in {0, PDen} : ZoomFrame(q)

LatSpec == (\E c \in LatCenters : MapInit(c, Z(0))) /\ [][LatNext]_vars

(***************************************************************************)
(* ArcSpec: flyTo between longitudes on both sides of the antimeridian,    *)
(* its frames at every progress, and flights that replace a flight.        *)
(***************************************************************************)
ArcStarts == {[lon |-> l, lat |-> 0] : l \in {-179, 0, 90}}
ArcFlights == {[hasCenter |-> TRUE, center |-> [lon |-> l, lat |-> 0], zoom |-> 0, bearing |-> 0] :
                 l \in {-179, 179, 180, 539}}

ArcNext ==
  \/ Draw(<<>>, <<>>)
  \/ \E o \in ArcFlights : FlyTo(o)
  \/ \E q \in 0..PDen : FlyFrame(q)

ArcSpec == (\E c \in ArcStarts : MapInit(c, Z(1))) /\ [][ArcNext]_vars

(***************************************************************************)
(* RequestSpec: flyTo with every combination of options given or omitted,  *)
(* zoom 0 and bearing 0 among the values given; an omitted option reads as *)
(* undefined, which is falsy like 0.                                       *)
(***************************************************************************)
RequestFlights ==
  {[hasCenter |-> hc, center |-> [lon |-> 10, lat |-> 0],
    hasZoom |-> hz, zoom |-> z, hasBearing |-> hb, bearing |-> b] :
     hc \in BOOLEAN, hz \in BOOLEAN, z \in {0, Z(2)}, hb \in BOOLEAN, b \in {0, 15}}

RequestNext ==
  \/ Draw(<<>>, <<>>)
  \/ \E o \in RequestFlights : (o.hasZoom \/ o.zoom = 0) /\ (o.hasBearing \/ o.bearing = 0) /\ FlyTo(o)
  \/ \E q \in 0..PDen : FlyFrame(q)
  \/ \E z \in ZoomInputs : SetZoom(z)
  \/ \E b \in BearingInputs : SetBearing(b)

RequestSpec == MapInit(Origin, Z(1)) /\ [][RequestNext]_vars

(***************************************************************************)
(* AnchorSpec: zooms and rotations about an anchor south of the canvas     *)
(* centre, on a map whose centre lies in the north: wheel ticks,           *)
(* double-clicks, pinches, two-finger taps and the frames of the           *)
(* animations they start.                                                  *)
(***************************************************************************)
AnchorCenters == {[lon |-> 170, lat |-> 60]}
AnchorPoints == {"south"}

AnchorNext ==
  \/ Draw(<<>>, <<>>)
  \/ \E a \in AnchorPoints, dz \in {WHEEL_ZOOM_STEP, -WHEEL_ZOOM_STEP} : Wheel(a, dz)
  \/ \E a \in AnchorPoints : DoubleClick(a)
  \/ \E q \in 0..PDen : ZoomFrame(q)
  \/ \E a \in AnchorPoints : StartPinch(a)
  \/ \E a \in AnchorPoints, dz \in PinchZooms, db \in PinchTurns : PinchMove(a, dz, db)
  \/ \E a \in AnchorPoints, tap \in BOOLEAN : EndPinch(a, tap)

AnchorSpec == (\E c \in AnchorCenters : MapInit(c, Z(1))) /\ [][AnchorNext]_vars

(***************************************************************************)
(* InertiaSpec: drags released at every speed up to two steps above        *)
(* MaxSpeed, the frames of the inertia job with positive dt, and what      *)
(* cancels the job.  FairInertiaSpec: the browser runs every requested     *)
(* animation frame.                                                        *)
(***************************************************************************)
InertiaSpeeds == 0..(MaxSpeed + 2)
InertiaDecays == 1..2

InertiaNext ==
  \/ Draw(<<>>, <<>>)
  \/ StartDrag
  \/ \E d \in GesturePans, n \in 1..2 : DragMove(d, n)
  \/ \E v \in InertiaSpeeds : EndDrag(v)
  \/ \E d \in GesturePans, dec \in InertiaDecays : InertiaFrame(d, dec)
  \/ StopAnimations
  \/ \E d \in GesturePans : KeyDown("ArrowLeft", d)
  \/ \E z \in ZoomInputs : SetZoom(z)

InertiaSpec == MapInit(Origin, Z(1)) /\ [][InertiaNext]_vars

FairInertiaSpec ==
  InertiaSpec /\ WF_vars(\E d \in GesturePans, dec \in InertiaDecays : InertiaFrame(d, dec))

(***************************************************************************)
(* ZoomEndSpec: anchored zoom/rotate animations, their frames at every     *)
(* progress, and what cancels or replaces them: stopAnimations, a press,   *)
(* a second finger, flyTo, a pan key, a newer animation.                   *)
(***************************************************************************)
ZoomEndKeys == {"n", "ArrowLeft"}

ZoomEndNext ==
  \/ Draw(<<>>, <<>>)
  \/ \E a \in Anchors, dz \in {WHEEL_ZOOM_STEP, -WHEEL_ZOOM_STEP} : Wheel(a, dz)
  \/ \E a \in Anchors : DoubleClick(a)
  \/ \E q \in 0..PDen : ZoomFrame(q)
  \/ StopAnimations
  \/ StartDrag
  \/ EndDrag(0)
  \/ \E a \in Anchors : StartPinch(a)
  \/ \E a \in Anchors, tap \in BOOLEAN : EndPinch(a, tap)
  \/ \E o \in GestureFlights : FlyTo(o)
  \/ FlyFrame(PDen)
  \/ \E k \in ZoomEndKeys, d \in GesturePans : KeyDown(k, d)

ZoomEndSpec == MapInit(Origin, Z(1)) /\ [][ZoomEndNext]_vars

(***************************************************************************)
(* RefreshSpec: one tile key on a clock that passes TILE_TTL: the tile is  *)
(* drawn exactly 24 hours and 25 hours after it was loaded; the idle       *)
(* callback of _reloadTile, the events of the refresh image, and layer     *)
(* removal and re-adding.                                                  *)
(***************************************************************************)
RefreshClock == <<1, 25, 26>>

RefreshNext ==
  \/ MapRender
  \/ DrawOver(LoadKeys)
  \/ ClockStep(RefreshClock)
  \/ \E id \in LoadIds : ImgLoad(id)
  \/ \E r \in ReloadIds : DoReload(r)
  \/ \E r \in ReloadIds : ReloadImgLoad(r)
  \/ \E r \in ReloadIds : ReloadImgError(r)
  \/ AddLayer("L1")
  \/ RemoveLayer("L1")

RefreshSpec == EvictInit /\ [][RefreshNext]_vars

(***************************************************************************)
(* PinchSpec: one-finger drags, released or joined by a second finger,     *)
(* the inertia that a drag end launches, and the pinch and the two-finger  *)
(* tap that follow.  The touchstart of the second finger reaches the       *)
(* listeners of DragPanHandler and TouchZoomRotateHandler in either order. *)
(***************************************************************************)
PinchNext ==
  \/ Draw(<<>>, <<>>)
  \/ StartDrag
  \/ \E d \in GesturePans, n \in 1..2 : DragMove(d, n)
  \/ \E v \in InertiaSpeeds : EndDrag(v)
  \/ \E d \in GesturePans, dec \in InertiaDecays : InertiaFrame(d, dec)
  \/ \E dragPanFirst \in BOOLEAN, a \in Anchors, v \in InertiaSpeeds :
       TouchStartTwo(dragPanFirst, a, v)
  \/ \E a \in Anchors, dz \in PinchZooms, db \in PinchTurns : PinchMove(a, dz, db)
  \/ \E a \in Anchors, tap \in BOOLEAN : EndPinch(a, tap)
  \/ \E q \in {0, PDen} : ZoomFrame(q)

PinchSpec == MapInit(Origin, Z(1)) /\ [][PinchNext]_vars

(***************************************************************************)
(* LayerSpec: the layer list and the base layer of a map under addLayer,   *)
(* removeLayer and setBaseLayer of tile layers and of a GeoJSON layer,     *)
(* with setZoom and the frames of scheduleRender.                          *)
(***************************************************************************)
LayerKinds == {"OSM", "L2", "G"}

LayerNext ==
  \/ Draw(<<>>, <<>>)
  \/ \E l \in LayerKinds : AddLayer(l)
  \/ \E l \in LayerKinds : RemoveLayer(l)
  \/ \E l \in {x \in LayerKinds : IsTileLayer(x)} : SetBaseLayer(l)
  \/ \E z \in ZoomInputs : SetZoom(z)

LayerSpec == MapInit(Origin, Z(1)) /\ [][LayerNext]_vars

(***************************************************************************)
(* ConstructSpec: new Atlas on a page with or without the container and    *)
(* the canvas, with a defaultCenter that is undefined, null, or an object  *)
(* whose lon and lat are numbers in and out of range, numeric or other     *)
(* strings, NaN, null or missing.                                          *)
(***************************************************************************)
CoordOptions == {Num(0), Num(190), Num(-190), NumStr(10), NumStr(190), Text, Undefined, Null, NaN}
DefaultCenterOptions ==
  {Undefined, Null} \cup {[t |-> "object", lon |-> x, lat |-> y] : x, y \in CoordOptions}

ConstructNext ==
  \E hasContainer, hasCanvas \in BOOLEAN, dc \in DefaultCenterOptions :
    NewAtlas(hasContainer, hasCanvas, dc)

ConstructSpec == MapInit(Origin, Z(3)) /\ [][ConstructNext]_vars

(***************************************************************************)
(* AttributionSpec: updateAttribution on a map with and without a base     *)
(* layer, for every prefix and every attribution of up to MaxPieces pieces *)
(* among text, "<script>" and "</script>".                                 *)
(***************************************************************************)
Pieces == Tags \cup {"window.hacked = true;"}
Strings(n) == UNION {[1..k -> Pieces] : k \in 0..n}

AttributionNext ==
  \/ Draw(<<>>, <<>>)
  \/ AddLayer("L1")
  \/ RemoveLayer("L1")
  \/ \E prefix \in Strings(1), attribution \in Strings(MaxPieces) :
       UpdateAttribution(prefix, attribution)

AttributionSpec == MapInit(Origin, Z(3)) /\ [][AttributionNext]_vars

(***************************************************************************)
(* RoundTripSpec: screenToLatLon of the canvas centre and of the container *)
(* point of a coordinate, on the map of the README (centre 51.505 / -0.09  *)
(* at zoom 13, on the grid 51 / 0) and on a map near the antimeridian that *)
(* flies across it, at the bearings of the quarter turns, where the        *)
(* rotation is exact on the grid.                                          *)
(***************************************************************************)
RoundTripViews == {[center |-> [lon |-> 0, lat |-> 51], zoom |-> Z(13)],
                   [center |-> [lon |-> 179, lat |-> 0], zoom |-> Z(1)]}
RoundTripBearings == {0, 90, 180, -90}
RoundTripPoints == {[lon |-> x, lat |-> y] : x \in {-90, 13, 90}, y \in {-85, 0, 51, 85}}

RoundTripNext ==
  \/ Draw(<<>>, <<>>)
  \/ \E b \in RoundTripBearings : SetBearing(b)
  \/ \E o \in FlyFlights : zoom = Z(1) /\ FlyTo(o)
  \/ \E q \in 0..PDen : FlyFrame(q)
  \/ ScreenToLatLonCall(Origin)
  \/ \E p \in RoundTripPoints : RoundTripCall(p)

RoundTripSpec == (\E v \in RoundTripViews : MapInit(v.center, v.zoom)) /\ [][RoundTripNext]_vars

(***************************************************************************)
(* SeamSpec: a map near the antimeridian panned east and west in steps of  *)
(* a few degrees by the arrow keys and by drags, all the way round.        *)
(***************************************************************************)
SeamCenters == {[lon |-> 174, lat |-> 0]}
SeamPans == {[lon |-> 7, lat |-> 0], [lon |-> -7, lat |-> 0]}
SeamKeys == {"ArrowLeft", "ArrowRight"}

SeamNext ==
  \/ Draw(<<>>, <<>>)
  \/ \E k \in SeamKeys, d \in SeamPans : KeyDown(k, d)
  \/ StartDrag
  \/ \E d \in SeamPans : DragMove(d, 1)
  \/ EndDrag(0)

SeamSpec == (\E c \in SeamCenters : MapInit(c, Z(1))) /\ [][SeamNext]_vars

(***************************************************************************)
(* ProjectionSpec: the projection applied to coordinates inside, on and    *)
(* beyond the limits of latitude and longitude, the poles included, at the *)
(* zoom levels 0, 1 and 13.                                                *)
(***************************************************************************)
ProjectionPoints ==
  {[lon |-> x, lat |-> y] : x \in {-180, -179, -90, 0, 1, 13, 179, 180},
                            y \in {-90, -85, -84, -45, 0, 1, 51, 84, 85, 90}}
ProjectionZooms == {Z(0), Z(1), Z(13)}

ProjectionNext ==
  \/ \E p \in ProjectionPoints : ProjectCall(p)
  \/ \E p \in ProjectionPoints, z \in ProjectionZooms : LatLngToTileCall(p, z)

ProjectionSpec == MapInit(Origin, Z(1)) /\ [][ProjectionNext]_vars

(***************************************************************************)
(* DragSampleSpec: drags of up to MaxSamples moves, the events 10 to 130   *)
(* milliseconds apart, the pointer still or moving a few pixels either     *)
(* way, released at once or after a pause longer than the window.          *)
(***************************************************************************)
SampleGaps == {10, 50, 70, 130}
SampleMoves == {-3, 0, 2, 6}
ReleaseGaps == {0, 10, 130}

DragSampleNext ==
  \/ PointerDown(0, 0)
  \/ \E dt \in SampleGaps, dx \in SampleMoves : PointerMove(dt, dx)
  \/ \E dt \in ReleaseGaps : PointerUp(dt)

DragSampleSpec == MapInit(Origin, Z(1)) /\ [][DragSampleNext]_vars

(***************************************************************************)
(* TapSpec: two fingers put down, moved or not, and lifted together or one *)
(* after the other, soon or late, and the frames of the zoom-out that a    *)
(* tap starts.                                                             *)
(***************************************************************************)
FingersLeft == 0..2

TapNext ==
  \/ Draw(<<>>, <<>>)
  \/ \E a \in Anchors : StartPinch(a)
  \/ \E a \in Anchors, dz \in PinchZooms, db \in PinchTurns : PinchMove(a, dz, db)
  \/ \E a \in Anchors, left \in FingersLeft, quick \in BOOLEAN : TouchEnd(a, left, quick)
  \/ \E q \in 0..PDen : ZoomFrame(q)

TapSpec == MapInit(Origin, Z(1)) /\ [][TapNext]_vars

(***************************************************************************)
(* PinchViewSpec: pinches on a map whose centre lies in the north, the     *)
(* fingers' midpoint north of the canvas centre, where the coordinate      *)
(* under the midpoint lies beyond the Mercator limit; the moves            *)
(* of the fingers, their lifting and the zoom-out of a tap.                *)
(***************************************************************************)
PinchViewCenters == {[lon |-> 170, lat |-> 60]}
PinchViewAnchors == {"north"}

PinchViewNext ==
  \/ Draw(<<>>, <<>>)
  \/ \E a \in PinchViewAnchors : StartPinch(a)
  \/ \E a \in PinchViewAnchors, dz \in PinchZooms, db \in PinchTurns : PinchMove(a, dz, db)
  \/ \E a \in PinchViewAnchors, left \in FingersLeft, quick \in BOOLEAN : TouchEnd(a, left, quick)
  \/ \E q \in 0..PDen : ZoomFrame(q)

PinchViewSpec == (\E c \in PinchViewCenters : MapInit(c, Z(1))) /\ [][PinchViewNext]_vars

(***************************************************************************)
(* PrefetchSpec: the tile layer on a map set to zoom levels at, just above *)
(* and just below an integer, at the ends of the layer's range and in the  *)
(* middle between two integers.                                            *)
(***************************************************************************)
PrefetchZooms == {Z(0), Z(0) + 2, Z(0) + 3, Z(0) + 4, Z(0) + 6, Z(1), Z(2) + 7, Z(3),
                  Z(17) + 7, Z(18)}

PrefetchNext ==
  \/ Draw(<<>>, <<>>)
  \/ AddLayer("L1")
  \/ RemoveLayer("L1")
  \/ \E z \in PrefetchZooms : SetZoom(z)
  \/ PreloadAdjacentZoomTiles

PrefetchSpec == MapInit(Origin, Z(1)) /\ [][PrefetchNext]_vars

(***************************************************************************)
(* BaseLayerSpec: a map that holds up to three tile layers, added, removed *)
(* and made the base layer in any order, one of them loading a tile.       *)
(***************************************************************************)
BaseLayers == {"L1", "L2", "OSM"}

BaseLayerNext ==
  \/ DrawOver(LoadKeys)
  \/ \E id \in LoadIds : ImgLoad(id)
  \/ \E l \in BaseLayers : AddLayer(l)
  \/ \E l \in BaseLayers : RemoveLayer(l)
  \/ \E l \in BaseLayers : SetBaseLayer(l)

BaseLayerSpec == MapInit(Origin, Z(1)) /\ [][BaseLayerNext]_vars

(***************************************************************************)
(* RenderSpec: up to MaxRenders calls of render() between two animation    *)
(* frames, over MaxFrames frames, a listener of moveend calling render()   *)
(* during the frame or not.                                                *)
(***************************************************************************)
RenderNext ==
  \/ RenderCall
  \/ \E again \in BOOLEAN : AnimationFrame(again)

RenderSpec == MapInit(Origin, Z(1)) /\ [][RenderNext]_vars

(***************************************************************************)
(* ConfigSpec: maps constructed one after another on one page, each with   *)
(* any of the options defaultCenter, defaultZoom and defaultLayer; the     *)
(* centres are the one of the README on the grid and centres beyond the    *)
(* limits.                                                                 *)
(***************************************************************************)
OptionCenters == {[lon |-> 0, lat |-> 51], [lon |-> 190, lat |-> 0], [lon |-> 0, lat |-> -100]}
OptionZooms == {Z(1), Z(5), Z(13)}
OptionNames == {"defaultCenter", "defaultZoom", "defaultLayer"}
AtlasOptions ==
  {[k \in S |-> [defaultCenter |-> c, defaultZoom |-> z, defaultLayer |-> "ESRI"][k]] :
     S \in SUBSET OptionNames, c \in OptionCenters, z \in OptionZooms}

ConfigNext == \E options \in AtlasOptions : ConstructAtlas(options)

ConfigSpec == MapInit(Origin, Z(3)) /\ [][ConfigNext]_vars

(***************************************************************************)
(* MarkerSpec: up to MaxMarkers markers added without an id, at two        *)
(* places, and removed by the ids that addMarker returned.                 *)
(***************************************************************************)
MarkerPlaces == {[lon |-> 0, lat |-> 51], [lon |-> 13, lat |-> 52]}
MarkerIds == 0..(MaxMarkers - 1)

MarkerNext ==
  \/ \E p \in MarkerPlaces : AddMarker(p.lat, p.lon)
  \/ \E id \in MarkerIds : RemoveMarker(id)

MarkerSpec == MapInit(Origin, Z(1)) /\ [][MarkerNext]_vars

(***************************************************************************)
(* Claims about the tile layer.                                            *)
(***************************************************************************)
\* a load whose image request is outstanding and whose controller is not aborted
InFlight(id) == tiles[id].img = "loading" /\ ~tiles[id].aborted

\* C1: at most one image load per tile key is in flight at any time.
C1_OneLoadPerKey ==
  \A i, j \in LoadIds :
    (i # j /\ InFlight(i) /\ InFlight(j)) => tiles[i].key # tiles[j].key

\* C2: a load on a retina URL falls back to the non-suffixed URL at most once.
C2_FallbackOnce == \A id \in LoadIds : tiles[id].retries <= 1

\* C3: the step that fires tileerror for a failed load leaves its key absent from
\* tileCache, loadingTiles and loadingControllers.
C3_FailedRecordDiscarded ==
  [][\A id \in LoadIds :
       (tiles[id].err = "none" /\ tiles'[id].err = "error") =>
         /\ ~Has(tiles', tileCache', tiles[id].key)
         /\ KeyTok(tiles[id].key) \notin loadingTiles'
         /\ loadingControllers'[tiles[id].key] = 0]_vars

\* the record of load id is in the cache and not yet loaded
Pending(id) == id \in Range(tileCache) /\ ~tiles[id].loaded

\* C4: assuming timers fire, every pending record eventually becomes loaded or
\* leaves tileCache, and its key eventually leaves loadingTiles.
C4_NoPendingForever ==
  \A id \in LoadIds :
    /\ Pending(id) ~> ~Pending(id)
    /\ Pending(id) ~> (KeyTok(tiles[id].key) \notin loadingTiles)

\* C5: no promise returned by _loadTile to render or prefetch, which attach no
\* handler, is ever rejected.
C5_NoRejectedPromise == \A id \in LoadIds : tiles[id].promise # "rejected"

\* C6: _performEviction on a cache of maxCacheSize + k entries (k > 0) leaves exactly
\* maxCacheSize entries, each removed entry being used no later than each remaining
\* one; on a cache within the limit it removes nothing.
C6_EvictsLeastRecentlyUsed ==
  [][PerformEviction =>
       IF Len(tileCache) <= maxCacheSize
       THEN tileCache' = tileCache
       ELSE /\ Len(tileCache') = maxCacheSize
            /\ Range(tileCache') \subseteq Range(tileCache)
            /\ \A g \in Range(tileCache) \ Range(tileCache') :
                 \A r \in Range(tileCache') : tiles[g].lastUsed <= tiles[r].lastUsed]_vars

\* an eviction has removed a record although an older entry of the Map, used more
\* recently, stayed
C6_Witness ==
  \E g, r \in LoadIds :
    /\ tiles[g].evicted
    /\ r \in Range(tileCache)
    /\ r < g
    /\ tiles[r].lastUsed > tiles[g].lastUsed
    /\ Len(tileCache) = maxCacheSize

(***************************************************************************)
(* Claims about the viewport.                                              *)
(***************************************************************************)
\* the number of motion jobs that have a frame callback scheduled
ActiveJobs ==
  (IF inertiaRAF.on THEN 1 ELSE 0) + (IF zoomAnim.on THEN 1 ELSE 0) + (IF flyAnim.on THEN 1 ELSE 0)

\* C7: at most one of the inertia job, the anchored zoom/rotate animation and the
\* fly-to animation is scheduled in any reachable state.
C7_OneMotionJob == ActiveJobs <= 1

\* the steps of the gestures and setters that write the viewport directly
Writers ==
  \/ \E d \in GesturePans, n \in 1..2 : DragMove(d, n)
  \/ \E a \in Anchors, dz \in PinchZooms, db \in PinchTurns : PinchMove(a, dz, db)
  \/ \E k \in GestureKeys, d \in GesturePans : KeyDown(k, d)
  \/ \E z \in ZoomInputs : SetZoom(z)
  \/ \E b \in BearingInputs : SetBearing(b)
  \/ \E l \in ZoomLayers : SetBaseLayer(l)

\* C8: a step of a gesture or setter that changes the viewport leaves no animation
\* or inertia job scheduled: the writer has cancelled the running jobs.
C8_WritersCancelJobs == [][(Writers /\ viewVars' # viewVars) => ActiveJobs' = 0]_vars

\* C9: the zoom lies within the zoom range of the current base layer, 0..18 when
\* there is none, in every reachable state.
C9_ZoomInRange == zoom >= MinZoom(baseLayer) /\ zoom <= MaxZoom(baseLayer)

\* C10: whenever no fly-to animation is scheduled, center.lon lies in (-180, 180].
C10_LonNormalized == ~flyAnim.on => (center.lon > -180 /\ center.lon <= 180)

\* C11: center.lat lies within [MIN_LATITUDE, MAX_LATITUDE] in every reachable state,
\* the intermediate frames of every job included.
C11_LatInRange == center.lat >= MIN_LATITUDE /\ center.lat <= MAX_LATITUDE

\* a frame in the middle of a fly-to whose interpolated latitude lies beyond the
\* limit has left the centre on the limit
C11_Witness ==
  /\ flyAnim.on
  /\ flyAnim.p > 0
  /\ Interpolate(flyAnim.sC.lat, flyAnim.dLat, flyAnim.p) < MIN_LATITUDE
  /\ center.lat = MIN_LATITUDE

\* x lies between 0 and d, whichever sign d has
Between(x, d) == IF d >= 0 THEN x >= 0 /\ x <= d ELSE x <= 0 /\ x >= d

\* C12: a fly-to moves the longitude by a delta of at most 180 degrees that leads to
\* the target modulo a full turn, every frame before the last lies on the arc from
\* the start along that delta, and the last frame lies at its end.
C12_ShortArc ==
  [][/\ \A o \in ArcFlights :
          FlyTo(o) =>
            /\ flyAnim'.dLon >= -180 /\ flyAnim'.dLon <= 180
            /\ (center.lon + flyAnim'.dLon - o.center.lon) % 360 = 0
     /\ \A q \in 0..PDen :
          FlyFrame(q) =>
            IF flyAnim'.on
            THEN Between(center'.lon - flyAnim.sC.lon, flyAnim.dLon)
            ELSE (center'.lon - flyAnim.sC.lon - flyAnim.dLon) % 360 = 0]_vars

\* a flight from lon -179 to lon 179 is west of -179 on a frame before its last
C12_Witness ==
  /\ flyAnim.on
  /\ flyAnim.p > 0
  /\ flyAnim.sC.lon = -179
  /\ flyAnim.dLon = -2
  /\ center.lon < -179

\* the view a flyTo request o asks for, from the view it is called in
Requested(o) ==
  [center |-> IF o.hasCenter
              THEN [lon |-> wrapLongitude(o.center.lon), lat |-> clampLatitude(o.center.lat)]
              ELSE center,
   zoom |-> IF o.hasZoom THEN ClampZoom(baseLayer, o.zoom) ELSE zoom,
   bearing |-> IF o.hasBearing THEN normalizeAngle(o.bearing) ELSE bearing]

\* C13: the flight that flyTo(o) starts leads to the requested view (the longitude up
\* to a full turn), and the last frame of a flight writes the view the flight leads to.
C13_FlyToEndsAtRequest ==
  [][/\ \A o \in RequestFlights :
          FlyTo(o) =>
            LET j == flyAnim'
                r == Requested(o)
            IN /\ (j.sC.lon + j.dLon - r.center.lon) % 360 = 0
               /\ clampLatitude(j.sC.lat + j.dLat) = r.center.lat
               /\ j.eZ = r.zoom
               /\ normalizeAngle(j.sB + j.dB) = r.bearing
     /\ (FlyFrame(PDen) =>
            /\ center' = [lon |-> wrapLongitude(flyAnim.sC.lon + flyAnim.dLon),
                          lat |-> clampLatitude(flyAnim.sC.lat + flyAnim.dLat)]
            /\ zoom' = flyAnim.eZ
            /\ bearing' = normalizeAngle(flyAnim.sB + flyAnim.dB))]_vars

\* two coordinates name the same point of the map
SameSpot(x, y) == (x.lon - y.lon) % 360 = 0 /\ x.lat = y.lat

\* C14: after every frame of an anchored zoom/rotate animation the coordinate under
\* the anchor pixel is the one captured when the animation started.
C14_AnchorFixed ==
  [][\A q \in 0..PDen :
       ZoomFrame(q) =>
         SameSpot(screenToLatLon(center', AnchorVec(zoomAnim.a, zoom', bearing')),
                  zoomAnim.anchorLL)]_vars

\* C15: a release at or above INERTIA_STOP_SPEED starts the inertia job and a slower
\* one starts none; every frame of the job lowers the speed by INERTIA_DECEL * dt,
\* and the frame that brings it to the threshold fires moveend once and clears
\* _inertiaRAF; with frames arriving, a scheduled job is eventually cleared.
C15_InertiaStops ==
  /\ [][/\ \A v \in InertiaSpeeds : EndDrag(v) => (inertiaRAF'.on <=> v >= INERTIA_STOP_SPEED)
        /\ \A d \in GesturePans, dec \in InertiaDecays :
             InertiaFrame(d, dec) =>
               IF inertiaRAF.v - dec > INERTIA_STOP_SPEED
               THEN inertiaRAF'.on /\ inertiaRAF'.v = inertiaRAF.v - dec /\ fired' = <<>>
               ELSE ~inertiaRAF'.on /\ fired' = <<"moveend">>]_vars
  /\ (inertiaRAF.on ~> ~inertiaRAF.on)

\* the inertia job has run its last frame: moveend fired, _inertiaRAF cleared, the
\* render it asked for not yet drawn
C15_Witness == ~inertiaRAF.on /\ fired = <<"moveend">> /\ renderScheduled /\ ~isDragging

\* the steps that call stopAnimations and start no anchored animation
ZoomCancels ==
  \/ StopAnimations
  \/ StartDrag
  \/ \E a \in Anchors : StartPinch(a)
  \/ \E o \in GestureFlights : FlyTo(o)
  \/ \E d \in GesturePans : KeyDown("ArrowLeft", d)

\* the steps that start an anchored animation
ZoomStarts ==
  \/ \E a \in Anchors, dz \in {WHEEL_ZOOM_STEP, -WHEEL_ZOOM_STEP} : Wheel(a, dz)
  \/ \E a \in Anchors : DoubleClick(a)
  \/ \E a \in Anchors : EndPinch(a, TRUE) /\ zoomAnim'.on
  \/ \E d \in GesturePans : KeyDown("n", d)

\* C16: the last frame of an anchored animation fires zoomend once and leaves no frame
\* scheduled, no other step fires zoomend, a cancelling step leaves no frame of the
\* animation scheduled, and a step that starts a newer animation leaves only the
\* frames of the newer one, which write from the view it started in.
C16_ZoomEndOnce ==
  [][/\ \A q \in 0..PDen :
          ZoomFrame(q) =>
            IF q = PDen THEN fired' = <<"zoomend">> /\ ~zoomAnim'.on
                        ELSE fired' = <<>> /\ zoomAnim'.on
     /\ ("zoomend" \in Range(fired') => ZoomFrame(PDen))
     /\ (ZoomCancels => ~zoomAnim'.on)
     /\ (ZoomStarts =>
            /\ zoomAnim'.on /\ zoomAnim'.p = 0
            /\ zoomAnim'.sZoom = zoom /\ zoomAnim'.sBear = bearing)]_vars

\* an anchored animation has run its last frame on a map that another gesture has
\* since left alone
C16_Witness == fired = <<"zoomend">> /\ ~zoomAnim.on /\ zoom # Z(1)

\* C17: moveend is fired only by a handler that leaves the map settled: no drag in
\* progress and no inertia, fly-to or anchored-zoom frame scheduled.
C17_MoveendWhenSettled ==
  "moveend" \in Range(fired) => (~isDragging /\ ActiveJobs = 0)

\* C18: every step that changes the centre fires a move event.
C18_MoveOnCenterChange == [][center' # center => "move" \in Range(fired')]_vars

\* C19: a step that runs TileLayer.onRemove, for the first time or again, leaves every
\* load that was in flight with its controller aborted, and tileCache, loadingTiles
\* and loadingControllers empty.
C19_OnRemoveClears ==
  [][((RemoveLayer("L1") /\ Attached) \/ OnRemoveCall) =>
       /\ \A id \in LoadIds : InFlight(id) => tiles'[id].aborted
       /\ tileCache' = <<>>
       /\ loadingTiles' = {}
       /\ \A k \in Keys : loadingControllers'[k] = 0]_vars

\* C20: an eviction that removes the record of a load still in flight leaves the load's
\* controller aborted and its key absent from loadingTiles and loadingControllers.
C20_EvictionCancelsLoad ==
  [][PerformEviction =>
       \A id \in LoadIds :
         (InFlight(id) /\ id \in Range(tileCache) /\ id \notin Range(tileCache')) =>
           /\ tiles'[id].aborted
           /\ KeyTok(tiles[id].key) \notin loadingTiles'
           /\ loadingControllers'[tiles[id].key] = 0]_vars

\* C21: a refresh is scheduled only by a render pass that draws a loaded record more
\* than TILE_TTL after its loadedAt; starting the refresh image leaves every record
\* and the cache as they are; the onload of the refresh image puts the new image
\* and the current time on the record the refresh was scheduled for, which stays
\* loaded, and changes no other record and not the cache; its onerror changes no
\* record and not the cache; a record with a refresh under way is loaded.
C21_RefreshInPlace ==
  /\ [][\A r \in ReloadIds :
          LET id == reloads'[r].tile
          IN /\ (reloads[r].st = "none" /\ reloads'[r].st = "scheduled") =>
                  /\ id \in Range(tileCache)
                  /\ tiles[id].loaded
                  /\ now - tiles[id].loadedAt > TILE_TTL
                  /\ tiles'[id].lastUsed = now
             /\ DoReload(r) => (tiles' = tiles /\ tileCache' = tileCache)
             /\ ReloadImgLoad(r) =>
                  /\ tiles' = [tiles EXCEPT ![id].shown = r, ![id].loadedAt = now]
                  /\ tiles'[id].loaded
                  /\ tileCache' = tileCache
             /\ ReloadImgError(r) => (tiles' = tiles /\ tileCache' = tileCache)]_vars
  /\ [](\A r \in ReloadIds :
          reloads[r].st \in {"scheduled", "loading"} => tiles[reloads[r].tile].loaded)

\* a refresh has succeeded on a record that is in the cache: the record shows the
\* image of the refresh and carries the time of the refresh
C21_Witness ==
  \E r \in ReloadIds :
    /\ reloads[r].st = "done"
    /\ reloads[r].tile \in Range(tileCache)
    /\ tiles[reloads[r].tile].shown = r
    /\ tiles[reloads[r].tile].loaded
    /\ tiles[reloads[r].tile].loadedAt = RefreshClock[3]

\* C22: the touchstart of a second finger, whichever listener runs first, leaves no
\* drag in progress, the pinch active, no inertia job scheduled and the viewport as
\* it was; while the pinch is active there is no drag and no inertia job, and only
\* the touchmove of the pinch changes the viewport.
C22_PinchEndsDrag ==
  /\ [][\A dragPanFirst \in BOOLEAN, a \in Anchors, v \in InertiaSpeeds :
          TouchStartTwo(dragPanFirst, a, v) =>
            (~isDragging' /\ isPinching' /\ ~inertiaRAF'.on /\ viewVars' = viewVars)]_vars
  /\ [](isPinching => (~isDragging /\ ~inertiaRAF.on))
  /\ [][(isPinching /\ isPinching' /\ viewVars' # viewVars) =>
          \E a \in Anchors, dz \in PinchZooms, db \in PinchTurns : PinchMove(a, dz, db)]_vars

\* a second finger has ended a drag that had moved the map and had samples enough
\* for a speed: the pinch is active and nothing else is
C22_Witness ==
  /\ isPinching
  /\ ~pinch.moved
  /\ moveSamples = 2
  /\ dragStart # center
  /\ ~isDragging
  /\ ActiveJobs = 0

\* C23: in every reachable state the base layer of the map is null or a TileLayer.
C23_BaseLayerIsTileLayer == baseLayer = "none" \/ IsTileLayer(baseLayer)

\* a defaultCenter that is no object with a number for lon and for lat
Malformed(dc) == dc.t # "object" \/ dc.lon.t # "number" \/ dc.lat.t # "number"

\* C24: new Atlas throws when the container or the canvas is missing or the
\* defaultCenter is malformed, and a map that it creates has a centre whose lon and
\* lat are numbers.
C24_MisconfigurationFails ==
  call.op = "new Atlas" =>
    /\ (~call.hasContainer \/ ~call.hasCanvas \/ Malformed(call.defaultCenter)) => call.out.threw
    /\ ~call.out.threw => (call.out.center.lon.t = "number" /\ call.out.center.lat.t = "number")

\* C25: after updateAttribution the container of the AttributionControl holds no
\* element: it is empty, or holds one text node whose text is the prefix, the
\* separator and the attribution of the base layer as they are written.
C25_AttributionIsText ==
  call.op = "updateAttribution" =>
    /\ \A i \in DOMAIN call.out : call.out[i].kind = "text"
    /\ call.out = IF AttributionText(call.prefix, call.attribution) = <<>> THEN <<>>
                  ELSE <<[kind |-> "text",
                          data |-> AttributionText(call.prefix, call.attribution)]>>

\* the attribution of the base layer holds a script tag, and the container holds it
\* as the text of its one text node
C25_Witness ==
  /\ call.op = "updateAttribution"
  /\ baseLayer = "L1"
  /\ call.attribution = <<"<script>", "window.hacked = true;", "</script>">>
  /\ Len(call.out) = 1
  /\ call.out[1].kind = "text"
  /\ "<script>" \in Range(call.out[1].data)

\* C26: screenToLatLon of the canvas centre returns the centre of the map, and
\* screenToLatLon of the container point of a coordinate p within the latitude
\* limits returns p.
C26_ScreenRoundTrip ==
  /\ (call.op = "screenToLatLon" /\ call.at = Origin) => call.out = call.center
  /\ call.op = "roundTrip" => call.out = call.p

\* the centre' after a pan by the ground displacement d
PannedBy(d) ==
  \/ \E k \in SeamKeys : KeyDown(k, d)
  \/ DragMove(d, 1) /\ dragStart = center

\* C27: center.lon lies in (-180, 180] in every reachable state, and a pan of the
\* centre to the east raises the tile-space x that render derives from the centre,
\* a pan to the west lowers it, each by the width of the pan.
C27_NoSeam ==
  /\ [](center.lon > -180 /\ center.lon <= 180)
  /\ [][\A d \in SeamPans :
          PannedBy(d) =>
            RenderCentreX' - RenderCentreX = latLngToTileX(d.lon, zoom) - latLngToTileX(0, zoom)]_vars

\* C28: unproject(project(p)) gives p back for every latitude strictly between the
\* limits and every longitude strictly between -180 and 180, and so does
\* tileToLatLng(latLngToTile(p, z), z) at every zoom; the latitude is clamped
\* before it is projected, so the projection of a pole is finite
ProjectionDomain(p) == p.lat > -MAX_LATITUDE /\ p.lat < MAX_LATITUDE /\ p.lon > -180 /\ p.lon < 180
Finite(n) == n > -Infinity /\ n < Infinity
Cancelled(id) == tiles[id].aborted
C29_CancelledLoadInert ==
  [][\A id \in LoadIds :
       (Cancelled(id) /\ (ImgLoad(id) \/ ImgError(id) \/ Timeout(id))) =>
         /\ tiles'[id].loaded = tiles[id].loaded
         /\ tiles'[id].promise = tiles[id].promise
         /\ tileCache' = tileCache
         /\ loadingTiles' = loadingTiles
         /\ loadingControllers' = loadingControllers]_vars

\* C30: in every state a tile key is in loadingTiles exactly when tileCache holds a
\* record for it that is not loaded yet, and loadingControllers holds a controller
\* for exactly the tile keys of loadingTiles
C30_LoadingSetsAgree ==
  \A k \in Keys :
    /\ KeyTok(k) \in loadingTiles <=>
         (Has(tiles, tileCache, k) /\ ~tiles[Get(tiles, tileCache, k)].loaded)
    /\ loadingControllers[k] # 0 <=> KeyTok(k) \in loadingTiles

\* C31: for every tile key at most one refresh is scheduled or in flight at a time
RefreshesOf(k) == {r \in ReloadIds : reloads[r].key = k /\ reloads[r].st \in {"scheduled", "loading"}}
C31_OneRefreshPerKey == \A k \in Keys : Cardinality(RefreshesOf(k)) <= 1

\* C32: the velocity found at release is the displacement from the oldest sample still
\* in the 120 ms window to the latest sample, divided by their time difference
computeVelocityFromOldest(samples) ==
  IF Len(samples) < 2 THEN 0
  ELSE VelocityBetween(samples[1], samples[Len(samples)])
C32_VelocityFromOldest ==
  call.op = "mouseUp" =>
    call.out = computeVelocityFromOldest(call.samples)

\* C33: a release more than 120 ms after the last move of the pointer starts no inertia
C33_NoInertiaAfterPause ==
  (call.op = "mouseUp" /\ call.t - call.samples[Len(call.samples)].t > VELOCITY_WINDOW_MS) =>
    ~call.inertia

\* C34: a touchend of a pinch that has stayed below the thresholds and within the
\* delay starts the zoom-out by one level when it lifts the last finger, and when it
\* leaves one finger down it has either started the zoom-out or left the handler
\* pinching, so that the lift of the other finger can start it; a touchend of a
\* pinch that moved or lasted longer starts no animation
ZoomOutStarted == zoomAnim'.on /\ zoomAnim'.p = 0 /\ zoomAnim'.toZoom = zoom - Z(1)
C34_TwoFingerTap ==
  [][\A a \in Anchors, left \in 0..1, quick \in BOOLEAN :
       (isPinching /\ TouchEnd(a, left, quick)) =>
         IF quick /\ ~pinch.moved
         THEN /\ left = 0 => ZoomOutStarted
              /\ left = 1 => (ZoomOutStarted \/ isPinching')
         ELSE zoomAnim' = zoomAnim]_vars

\* C35: a move of a pinch sets the zoom to the clamped start zoom plus the change of
\* the fingers' distance and the bearing to the normalized start bearing plus their
\* turn; the view it gives is the one the same move gives when it is repeated; and
\* from the start of the pinch on, a move with the fingers at their starting
\* positions gives the view the pinch started from
PinchView(a, dz, db) ==
  applyZoomRotateAbout(baseLayer, a, pinch.startZoom + dz,
                       normalizeAngle(pinch.startBearing + normalizeAngle(db)), pinch.anchorLL)
View == [center |-> center, zoom |-> zoom, bearing |-> bearing]
C35_PinchFromStart ==
  /\ [][\A a \in PinchViewAnchors, dz \in PinchZooms, db \in PinchTurns :
          PinchMove(a, dz, db) =>
            /\ zoom' = ClampZoom(baseLayer, pinch.startZoom + dz)
            /\ bearing' = normalizeAngle(pinch.startBearing + db)
            /\ View' = PinchView(a, dz, db)']_vars
  /\ [][\A a \in PinchViewAnchors : StartPinch(a) => PinchView(a, 0, 0)' = View']_vars

\* C36: a render pass issues prefetch loads exactly when the zoom is within 0.3 of an
\* integer, above it or below it, for the levels one below and one above that
\* integer, and for no level outside the range of the layer
NearestLevel(z) == (z + 4) \div 8
NearInteger(z) == 10 * (z - 8 * NearestLevel(z)) <= 3 * 8 /\ 10 * (8 * NearestLevel(z) - z) <= 3 * 8
C36_PrefetchNearInteger ==
  call.op = "preload" =>
    /\ call.levels # {} <=> NearInteger(call.zoom)
    /\ call.levels \subseteq {NearestLevel(call.zoom) - 1, NearestLevel(call.zoom) + 1}
    /\ \A dz \in call.levels : 8 * dz >= getMinZoom("L1") /\ 8 * dz <= getMaxZoom("L1")

\* C37: after setBaseLayer(l) the base layer is l, l is in the layer list, and the
\* previous base layer, when it is another layer, is no longer in the list
C37_SetBaseLayer ==
  [][\A l \in BaseLayers :
       SetBaseLayer(l) =>
         /\ baseLayer' = l
         /\ l \in Range(layers')
         /\ baseLayer \notin {"none", l} => baseLayer \notin Range(layers')]_vars

\* C38: renderScheduled is true exactly while a frame callback is registered, at most
\* one is registered at a time, a call of render() not yet served by a frame has one
\* registered, and every frame that served calls of render() ran _draw exactly once
C38_OneDrawPerFrame ==
  call.op \in {"render", "frame"} =>
    /\ call.renderScheduled <=> call.queue > 0
    /\ call.queue <= 1
    /\ call.requests > 0 => call.queue = 1
    /\ \A i \in DOMAIN call.frames :
         call.frames[i].requests > 0 /\ call.frames[i].draws = 1
C38_Witness ==
  /\ call.op = "frame"
  /\ \E i \in DOMAIN call.frames : call.frames[i].requests >= 3 /\ call.frames[i].draws = 1
  /\ ~call.renderScheduled

\* C39: a map constructed without options starts at the defaults of the library,
\* whatever options the maps constructed before it were given
C39_OptionsStayLocal ==
  (call.op = "construct" /\ call.options = NoOptions) =>
    /\ call.center = CONFIG.defaultCenter
    /\ call.zoom = CONFIG.defaultZoom

\* C40: the ids of the markers on the map are pairwise distinct
C40_MarkerIdsDistinct ==
  call.op \in {"addMarker", "removeMarker"} =>
    \A i, j \in DOMAIN call.markers : i # j => call.markers[i].id # call.markers[j].id

====
